---- MODULE Spec2Model ----
(***************************************************************************)
(* Reply-modality decision engine and synthesis pipeline of the Feishu     *)
(* plugin (src/src/tts.ts): the persisted VoiceState store, the decision   *)
(* function shouldSendAsVoice with its helpers, and generateTTS.           *)
(*                                                                         *)
(* Representation.                                                         *)
(*  - A JavaScript string is a sequence of characters; a character is a    *)
(*    one-element TLA+ string.  A CJK character is written as its pinyin   *)
(*    syllable ("kai" for U+5F00): it is still ONE character of the        *)
(*    sequence and it is not a \w character.  The grave accent U+0060 is   *)
(*    written "backtick" for the same reason.                              *)
(*  - `number | null` is a sequence of length <= 1: << >> is null and      *)
(*    <<n>> is the number n.  NaN is written the same way where a number   *)
(*    is parsed (<< >> is NaN there).                                      *)
(*  - `"voice" | "text" | null` is a string, null being "null".            *)
(*  - Timestamps are milliseconds since the Unix epoch, as Date.now().     *)
(***************************************************************************)
EXTENDS Integers, Sequences, FiniteSets, TLC

\* ------------------------------------------------------------------ values

Null == << >>
Num(n) == <<n>>
IsNull(x) == x = << >>
Val(x) == x[1]

\* JavaScript truthiness of a `number | null`: null and 0 are falsy.
TruthyNum(x) == ~IsNull(x) /\ Val(x) # 0
\* JavaScript truthiness of a string-or-null mode: null and "" are falsy.
TruthyStr(s) == s # "null" /\ s # ""

MinOf(S) == CHOOSE m \in S : \A k \in S : m <= k

\* { ...a, ...b }: own keys of b override those of a.
Merge(a, b) ==
    [k \in (DOMAIN a) \cup (DOMAIN b) |-> IF k \in DOMAIN b THEN b[k] ELSE a[k]]

EmptyObj == [k \in {} |-> 0]

\* ----------------------------------------------------------------- strings

LowerLetters ==
    <<"a","b","c","d","e","f","g","h","i","j","k","l","m",
      "n","o","p","q","r","s","t","u","v","w","x","y","z">>
UpperLetters ==
    <<"A","B","C","D","E","F","G","H","I","J","K","L","M",
      "N","O","P","Q","R","S","T","U","V","W","X","Y","Z">>
Digits == <<"0","1","2","3","4","5","6","7","8","9">>

Range(f) == {f[i] : i \in DOMAIN f}
LowerSet == Range(LowerLetters)
UpperSet == Range(UpperLetters)
DigitSet == Range(Digits)

IsLetter(c) == c \in LowerSet \/ c \in UpperSet
IsDigit(c) == c \in DigitSet
\* \w of a JavaScript regular expression: [A-Za-z0-9_]
IsWordChar(c) == IsLetter(c) \/ IsDigit(c) \/ c = "_"
\* characters `.` does not match
IsLineTerminator(c) == c \in {"\n", "\r"}

ToLower(c) ==
    IF c \in UpperSet
    THEN LowerLetters[CHOOSE i \in DOMAIN UpperLetters : UpperLetters[i] = c]
    ELSE c

DigitValue(c) == (CHOOSE i \in DOMAIN Digits : Digits[i] = c) - 1

\* p occurs in s starting at index i (1-based)
OccursAt(s, p, i) ==
    /\ i >= 1
    /\ i + Len(p) - 1 <= Len(s)
    /\ \A k \in 1..Len(p) : s[i + k - 1] = p[k]

\* String.prototype.includes
Includes(s, p) == \E i \in 1..(Len(s) + 1) : OccursAt(s, p, i)

\* p occurs in s at i, compared case-insensitively (flag i)
OccursAtNoCase(s, p, i) ==
    /\ i >= 1
    /\ i + Len(p) - 1 <= Len(s)
    /\ \A k \in 1..Len(p) : ToLower(s[i + k - 1]) = ToLower(p[k])

\* String.prototype.split(sep) for a one-character separator
RECURSIVE Split(_, _)
Split(s, sep) ==
    LET hits == {i \in 1..Len(s) : s[i] = sep} IN
    IF hits = {} THEN <<s>>
    ELSE LET i == MinOf(hits) IN
         <<SubSeq(s, 1, i - 1)>> \o Split(SubSeq(s, i + 1, Len(s)), sep)

\* Number(str) for the strings a time-of-day can hold: "" is 0, a run of
\* decimal digits is its value, anything else is NaN (<< >>).
RECURSIVE DigitsValue(_)
DigitsValue(s) ==
    IF Len(s) = 0 THEN 0
    ELSE 10 * DigitsValue(SubSeq(s, 1, Len(s) - 1)) + DigitValue(s[Len(s)])

ToNumber(s) ==
    IF \A i \in 1..Len(s) : IsDigit(s[i]) THEN Num(DigitsValue(s)) ELSE Null

\* /[a-zA-Z]{2,}/.test(text)
containsEnglish(text) ==
    \E i \in 1..(Len(text) - 1) : IsLetter(text[i]) /\ IsLetter(text[i + 1])

\* ------------------------------------------------------------------- clock

MsPerSecond == 1000
MsPerMinute == 60 * MsPerSecond
MsPerHour == 60 * MsPerMinute
MsPerDay == 24 * MsPerHour

\* Offset from UTC of an IANA zone name, or << >> for a name Intl rejects
\* (toLocaleString then throws a RangeError).
TzOffsetMs(tz) ==
    IF tz = "Asia/Shanghai" THEN Num(8 * MsPerHour)
    ELSE IF tz = "UTC" THEN Num(0)
    ELSE Null

\* The zone of the host process: Date.prototype.getDay/getHours read it.
SystemTimeZone == "Asia/Shanghai"

\* Wall-clock fields of the instant t in a zone whose offset is off.
\* 1970-01-01 was a Thursday (getDay() = 4).
DayOfWeek(t, off) == (4 + ((t + off) \div MsPerDay)) % 7
HourOfDay(t, off) == ((t + off) % MsPerDay) \div MsPerHour
MinuteOfHour(t, off) == ((t + off) % MsPerHour) \div MsPerMinute

\* new Date().getDay() / getHours() at the instant t
getDay(t) == DayOfWeek(t, Val(TzOffsetMs(SystemTimeZone)))
getHours(t) == HourOfDay(t, Val(TzOffsetMs(SystemTimeZone)))

\* ------------------------------------------------------------------ config

WeekdaySchedule ==
    << <<<<"0","7",":","0","0","-","0","8",":","3","0">>, "voice">>,
       <<<<"0","8",":","3","0","-","1","2",":","0","0">>, "text">>,
       <<<<"1","2",":","0","0","-","1","3",":","0","0">>, "voice">>,
       <<<<"1","3",":","0","0","-","1","7",":","3","0">>, "text">>,
       <<<<"1","7",":","3","0","-","1","9",":","0","0">>, "voice">>,
       <<<<"1","9",":","0","0","-","0","7",":","0","0">>, "voice">> >>

VoiceKeywords ==
    << <<"kai","che">>, <<"zai","lu","shang">>, <<"chu","men">>,
       <<"zou","lu">>, <<"di","tie">>, <<"gong","jiao">> >>

TextKeywords ==
    << <<"dao","le">>, <<"dao","gong","si">>, <<"kai","hui">>,
       <<"mang">>, <<"zai","ban","gong","shi">> >>

\* An object whose keys keep their insertion order (Object.entries) is a
\* sequence of <<key, value>> pairs.
DEFAULT_CONFIG ==
    [models |->
        [zh |-> [name |-> "vits-zh-hf-fanchen-C", lengthScale |-> "0.65"],
         zhen |-> [name |-> "vits-melo-tts-zh_en", lengthScale |-> "0.8"]],
     rules |->
        [forceText |->
            [maxChars |-> 150, codeBlocks |-> TRUE, tables |-> TRUE,
             techKeywords |-> TRUE],
         schedule |->
            [timezone |-> "Asia/Shanghai", weekday |-> WeekdaySchedule,
             weekend |-> "voice"],
         contextKeywords |-> [voice |-> VoiceKeywords, text |-> TextKeywords],
         adaptiveRules |->
            [followUserInputMode |-> TRUE, longIntervalThresholdMs |-> 300000,
             longIntervalPreference |-> "voice"]]]

\* obj?.key as an object to spread: the member when obj has it, else nothing.
Member(obj, key) == IF key \in DOMAIN obj THEN obj[key] ELSE EmptyObj

\* The file at SKILL_CONFIG_PATH: kind is "absent", "garbage" (JSON.parse
\* throws) or "json" with the parsed document in doc.
loadConfig(file) ==
    IF file.kind = "json"
    THEN LET json == file.doc
             config == Member(json, "config")
             rules == Member(config, "rules")
         IN [models |-> Merge(DEFAULT_CONFIG.models, Member(config, "models")),
             rules |->
               [forceText |->
                    Merge(DEFAULT_CONFIG.rules.forceText, Member(rules, "forceText")),
                schedule |->
                    Merge(DEFAULT_CONFIG.rules.schedule, Member(rules, "schedule")),
                contextKeywords |->
                    Merge(DEFAULT_CONFIG.rules.contextKeywords,
                          Member(rules, "contextKeywords")),
                adaptiveRules |->
                    Merge(DEFAULT_CONFIG.rules.adaptiveRules,
                          Member(rules, "adaptiveRules"))]]
    ELSE DEFAULT_CONFIG

\* ------------------------------------------------------- force-text rules

\* U+0060, which a TLA+ string cannot hold, is written by name.
Backtick == "backtick"

Fence == <<Backtick, Backtick, Backtick>>

\* /```[\s\S]*```/.test(text)
HasFencedBlock(text) ==
    \E i \in 1..Len(text) :
        /\ OccursAt(text, Fence, i)
        /\ \E j \in (i + 3)..Len(text) : OccursAt(text, Fence, j)

\* (text.match(/`[^`]+`/g) || []).length, scanning from index i
RECURSIVE InlineCodeSpans(_, _)
InlineCodeSpans(text, i) ==
    LET open == {k \in i..Len(text) : text[k] = Backtick} IN
    IF open = {} THEN 0
    ELSE LET o == MinOf(open)
             close == {k \in (o + 1)..Len(text) : text[k] = Backtick}
         IN IF close = {} THEN 0
            ELSE IF MinOf(close) = o + 1 THEN InlineCodeSpans(text, o + 1)
            ELSE 1 + InlineCodeSpans(text, MinOf(close) + 1)

\* /\|.*\|.*\|/.test(text)
HasTableRow(text) ==
    \E i \in 1..Len(text) :
        /\ text[i] = "|"
        /\ \E j \in (i + 1)..Len(text) :
              /\ text[j] = "|"
              /\ \E k \in (j + 1)..Len(text) :
                    /\ text[k] = "|"
                    /\ \A n \in i..k : ~IsLineTerminator(text[n])

TechKeywordList ==
    << <<"f","u","n","c","t","i","o","n">>, <<"c","o","n","s","t">>, <<"l","e","t">>,
       <<"v","a","r">>, <<"i","m","p","o","r","t">>, <<"e","x","p","o","r","t">>,
       <<"c","l","a","s","s">>, <<"i","n","t","e","r","f","a","c","e">>,
       <<"t","y","p","e">>, <<"a","s","y","n","c">>, <<"a","w","a","i","t">>,
       <<"r","e","t","u","r","n">>, <<"i","f">>, <<"e","l","s","e">>, <<"f","o","r">>,
       <<"w","h","i","l","e">>, <<"n","p","m">>, <<"g","i","t">>,
       <<"d","o","c","k","e","r">>, <<"a","p","i">>, <<"h","t","t","p">>,
       <<"j","s","o","n">>, <<"x","m","l">>, <<"s","q","l">>, <<"b","a","s","h">>,
       <<"s","h","e","l","l">>, <<"p","y","t","h","o","n">>,
       <<"j","a","v","a","s","c","r","i","p","t">>,
       <<"t","y","p","e","s","c","r","i","p","t">>, <<"n","o","d","e">>,
       <<"r","e","a","c","t">>, <<"v","u","e">> >>

\* /\b(function|const|...|vue)\b/i.test(text).  Every keyword starts with a
\* \w character, so a match starts at a \w character that follows a non-\w
\* character or the start of the text.
HasTechKeyword(text) ==
    \E i \in 1..Len(text) :
        /\ IsWordChar(text[i])
        /\ (i = 1 \/ ~IsWordChar(text[i - 1]))
        /\ \E n \in DOMAIN TechKeywordList :
              LET kw == TechKeywordList[n]
                  end == i + Len(kw) - 1
              IN /\ OccursAtNoCase(text, kw, i)
                 /\ (end = Len(text) \/ ~IsWordChar(text[end + 1]))

mustUseTextMutNoFence(config, text) ==
    LET rules == config.rules.forceText IN
    \/ rules.codeBlocks /\ InlineCodeSpans(text, 1) > 2
    \/ rules.tables /\ HasTableRow(text)
    \/ Len(text) > rules.maxChars
    \/ rules.techKeywords /\ HasTechKeyword(text)

mustUseTextMutLength(config, text) ==
    LET rules == config.rules.forceText IN
    \/ rules.codeBlocks /\ HasFencedBlock(text)
    \/ rules.codeBlocks /\ InlineCodeSpans(text, 1) > 2
    \/ rules.tables /\ HasTableRow(text)
    \/ Len(text) >= rules.maxChars
    \/ rules.techKeywords /\ HasTechKeyword(text)

mustUseText(config, text) ==
    LET rules == config.rules.forceText IN
    \/ rules.codeBlocks /\ HasFencedBlock(text)
    \/ rules.codeBlocks /\ InlineCodeSpans(text, 1) > 2
    \/ rules.tables /\ HasTableRow(text)
    \/ Len(text) > rules.maxChars
    \/ rules.techKeywords /\ HasTechKeyword(text)

\* ------------------------------------------------------- context keywords

\* the keyword lists consulted in the other order
detectContextFromMessageMutTextFirst(config, userMessage) ==
    LET keywords == config.rules.contextKeywords IN
    IF \E n \in DOMAIN keywords.text : Includes(userMessage, keywords.text[n])
    THEN "text"
    ELSE IF \E n \in DOMAIN keywords.voice : Includes(userMessage, keywords.voice[n])
    THEN "voice"
    ELSE "null"

\* the first keyword list with a hit decides, the voice list first
detectContextFromMessage(config, userMessage) ==
    LET keywords == config.rules.contextKeywords IN
    IF \E n \in DOMAIN keywords.voice : Includes(userMessage, keywords.voice[n])
    THEN "voice"
    ELSE IF \E n \in DOMAIN keywords.text : Includes(userMessage, keywords.text[n])
    THEN "text"
    ELSE "null"

\* ---------------------------------------------------------------- schedule

\* parseTime("HH:MM"): minutes since midnight, NaN (<< >>) when a part is
\* not a number or the minutes are missing
parseTime(timeStr) ==
    LET parts == Split(timeStr, ":")
        h == ToNumber(parts[1])
        m == IF Len(parts) >= 2 THEN ToNumber(parts[2]) ELSE Null
    IN IF IsNull(h) \/ IsNull(m) THEN Null ELSE Num(Val(h) * 60 + Val(m))

\* comparisons of numbers one of which may be NaN: false with a NaN
NumGt(a, b) == ~IsNull(a) /\ ~IsNull(b) /\ Val(a) > Val(b)
NumGe(a, b) == ~IsNull(a) /\ ~IsNull(b) /\ Val(a) >= Val(b)
NumLt(a, b) == ~IsNull(a) /\ ~IsNull(b) /\ Val(a) < Val(b)

\* a key without "-" leaves endStr undefined and parseTime(undefined) throws
RangeThrows(timeRange) == Len(Split(timeRange, "-")) < 2

\* a range test without the branch for ranges that span midnight
RangeMatchesMutNoWrap(timeRange, currentTime) ==
    LET parts == Split(timeRange, "-")
        start == parseTime(parts[1])
        end == parseTime(parts[2])
        cur == Num(currentTime)
    IN NumGe(cur, start) /\ NumLt(cur, end)

\* the body of the loop over Object.entries(schedule.weekday)
RangeMatches(timeRange, currentTime) ==
    LET parts == Split(timeRange, "-")
        start == parseTime(parts[1])
        end == parseTime(parts[2])
        cur == Num(currentTime)
    IN IF NumGt(start, end)
       THEN NumGe(cur, start) \/ NumLt(cur, end)
       ELSE NumGe(cur, start) /\ NumLt(cur, end)

\* the last matching range in declaration order
FirstMatchingRangeMutLastMatch(entries, n, currentTime) ==
    LET hits == {i \in n..Len(entries) : RangeMatches(entries[i][1], currentTime)}
    IN IF hits = {} THEN "voice"
       ELSE entries[CHOOSE m \in hits : \A k \in hits : k <= m][2]

\* the first matching range in declaration order, "voice" when none matches
RECURSIVE FirstMatchingRange(_, _, _)
FirstMatchingRange(entries, n, currentTime) ==
    IF n > Len(entries) THEN "voice"
    ELSE IF RangeThrows(entries[n][1]) THEN "throw"
    ELSE IF RangeMatches(entries[n][1], currentTime) THEN entries[n][2]
    ELSE FirstMatchingRange(entries, n + 1, currentTime)

\* "voice" | "text", or "throw" when the call raises
getSchedulePreference(config, t) ==
    LET schedule == config.rules.schedule
        off == TzOffsetMs(schedule.timezone)
    IN IF IsNull(off) THEN "throw"
       ELSE LET day == DayOfWeek(t, Val(off))
                currentTime == HourOfDay(t, Val(off)) * 60 + MinuteOfHour(t, Val(off))
            IN IF day = 0 \/ day = 6 THEN schedule.weekend
               ELSE FirstMatchingRange(schedule.weekday, 1, currentTime)

\* ------------------------------------------------------------ state store

DEFAULT_STATE ==
    [currentMode |-> "auto", modeSetAt |-> Null, modeExpiresAt |-> Null,
     lastUserInputMode |-> "null", lastInteractionAt |-> Null,
     corrections |-> << >>]

\* The store is the file at STATE_PATH (kind "absent", "garbage" or "json"
\* with the parsed document) and the module-level DEFAULT_STATE object,
\* which loadState returns itself, not a copy, when it cannot read the file.
AbsentFile == [kind |-> "absent", doc |-> EmptyObj]

loadState(store) ==
    IF store.file.kind = "json" THEN Merge(store.mem, store.file.doc) ELSE store.mem

\* the object loadState returned IS DEFAULT_STATE: assignments to its
\* fields change DEFAULT_STATE
AliasesDefault(store) == store.file.kind # "json"

\* the corrections array of the loaded object IS DEFAULT_STATE.corrections
AliasesCorrections(store) ==
    AliasesDefault(store) \/ "corrections" \notin DOMAIN store.file.doc

\* writeFileSync(STATE_PATH, JSON.stringify(state)); an I/O error is logged
\* and swallowed.  JSON keeps numbers, null, strings and arrays of them.
saveState(store, state, writable) ==
    IF writable THEN [store EXCEPT !.file = [kind |-> "json", doc |-> state]]
    ELSE store

IsGiven(arg) == arg \notin {"undefined", "null", ""}

updateInteractionMutAlwaysAssigns(store, userInputMode, t, writable) ==
    LET state == loadState(store)
        s1 == [state EXCEPT !.lastInteractionAt = Num(t),
                            !.lastUserInputMode = userInputMode]
        st1 == IF AliasesDefault(store) THEN [store EXCEPT !.mem = s1] ELSE store
    IN saveState(st1, s1, writable)

updateInteraction(store, userInputMode, t, writable) ==
    LET state == loadState(store)
        s1 == [state EXCEPT !.lastInteractionAt = Num(t),
                            !.lastUserInputMode =
                                IF IsGiven(userInputMode) THEN userInputMode ELSE @]
        st1 == IF AliasesDefault(store) THEN [store EXCEPT !.mem = s1] ELSE store
    IN saveState(st1, s1, writable)

setTemporaryModeMutNoExpiry(store, mode, durationMs, t, writable) ==
    LET state == loadState(store)
        s1 == [state EXCEPT !.currentMode = mode,
                            !.modeSetAt = Num(t),
                            !.modeExpiresAt = Null]
        st1 == IF AliasesDefault(store) THEN [store EXCEPT !.mem = s1] ELSE store
    IN saveState(st1, s1, writable)

setTemporaryMode(store, mode, durationMs, t, writable) ==
    LET state == loadState(store)
        s1 == [state EXCEPT !.currentMode = mode,
                            !.modeSetAt = Num(t),
                            !.modeExpiresAt =
                                IF TruthyNum(durationMs)
                                THEN Num(t + Val(durationMs)) ELSE Null]
        st1 == IF AliasesDefault(store) THEN [store EXCEPT !.mem = s1] ELSE store
    IN saveState(st1, s1, writable)

MaxCorrections == 50

\* a cap that keeps the oldest entries
LastCorrectionsMutKeepOldest(seq) ==
    IF Len(seq) > MaxCorrections THEN SubSeq(seq, 1, MaxCorrections) ELSE seq

\* corrections.slice(-MaxCorrections)
LastCorrections(seq) ==
    IF Len(seq) > MaxCorrections
    THEN SubSeq(seq, Len(seq) - MaxCorrections + 1, Len(seq)) ELSE seq

CorrectionAt(t, correctedTo) ==
    [timestamp |-> t, dayOfWeek |-> getDay(t), hour |-> getHours(t),
     correctedTo |-> correctedTo]

recordCorrection(store, correctedTo, t, writable) ==
    LET state == loadState(store)
        pushed == Append(state.corrections, CorrectionAt(t, correctedTo))
        s1 == [state EXCEPT !.corrections = LastCorrections(pushed)]
        st1 == IF AliasesDefault(store) THEN [store EXCEPT !.mem = s1]
               ELSE IF AliasesCorrections(store)
               THEN [store EXCEPT !.mem.corrections = pushed]
               ELSE store
    IN saveState(st1, s1, writable)

\* ------------------------------------------------------ learned preference

AbsDiff(a, b) == IF a >= b THEN a - b ELSE b - a

\* corrections.filter(c => c.dayOfWeek === currentDay &&
\*                          Math.abs(c.hour - currentHour) <= 2)
RECURSIVE RelevantCorrections(_, _, _)
RelevantCorrections(seq, currentDay, currentHour) ==
    IF Len(seq) = 0 THEN << >>
    ELSE (IF /\ Head(seq).dayOfWeek = currentDay
             /\ AbsDiff(Head(seq).hour, currentHour) <= 2
          THEN <<Head(seq)>> ELSE << >>)
         \o RelevantCorrections(Tail(seq), currentDay, currentHour)

LastN(seq, n) == IF Len(seq) > n THEN SubSeq(seq, Len(seq) - n + 1, Len(seq)) ELSE seq

\* the learned preference without the minimum of three corrections
getLearnedPreferenceMutNoMinimum(store, t) ==
    LET state == loadState(store)
        relevantCorrections ==
            RelevantCorrections(state.corrections, getDay(t), getHours(t))
        recent == LastN(relevantCorrections, 3)
        voiceCount == Cardinality({i \in DOMAIN recent : recent[i].correctedTo = "voice"})
    IN IF Len(relevantCorrections) >= 2 /\ voiceCount >= 2 THEN "voice"
       ELSE IF Len(relevantCorrections) >= 2 /\ voiceCount = 0 THEN "text"
       ELSE "null"

\* the learned preference by simple majority of the recent corrections
getLearnedPreferenceMutMajority(store, t) ==
    LET state == loadState(store)
        relevantCorrections ==
            RelevantCorrections(state.corrections, getDay(t), getHours(t))
        recent == LastN(relevantCorrections, 3)
        voiceCount == Cardinality({i \in DOMAIN recent : recent[i].correctedTo = "voice"})
    IN IF Len(state.corrections) < 3 THEN "null"
       ELSE IF Len(relevantCorrections) >= 2 /\ voiceCount >= 2 THEN "voice"
       ELSE IF Len(relevantCorrections) >= 2 THEN "text"
       ELSE "null"

getLearnedPreference(store, t) ==
    LET state == loadState(store)
        currentDay == getDay(t)
        currentHour == getHours(t)
        relevantCorrections ==
            RelevantCorrections(state.corrections, currentDay, currentHour)
        recent == LastN(relevantCorrections, 3)
        voiceCount == Cardinality({i \in DOMAIN recent : recent[i].correctedTo = "voice"})
    IN IF Len(state.corrections) < 3 THEN "null"
       ELSE IF Len(relevantCorrections) >= 2 /\ voiceCount >= 2 THEN "voice"
       ELSE IF Len(relevantCorrections) >= 2 /\ voiceCount = 0 THEN "text"
       ELSE "null"

\* ---------------------------------------------------------------- decision

\* an override that lapses already at the instant it expires
HasExpiredMutInclusive(state, t) ==
    TruthyNum(state.modeExpiresAt) /\ t >= Val(state.modeExpiresAt)

\* `expired` of shouldSendAsVoice and explainDecision
HasExpired(state, t) ==
    TruthyNum(state.modeExpiresAt) /\ t > Val(state.modeExpiresAt)

\* An optional string argument is << >> when omitted and <<s>> when given;
\* `if (userMessage)` is false for an omitted and for an empty message.
MessageGiven(userMessage) == ~IsNull(userMessage) /\ Len(Val(userMessage)) > 0

\* the soft signals with the long interval looked at before the last input
\* mode
SoftDecisionMutIntervalFirst(store, config, state, userMessage, t) ==
    LET adaptive == config.rules.adaptiveRules
        contextMode ==
            IF MessageGiven(userMessage)
            THEN detectContextFromMessage(config, Val(userMessage)) ELSE "null"
        learned == getLearnedPreference(store, t)
        schedule == getSchedulePreference(config, t)
    IN IF TruthyStr(contextMode)
       THEN [ret |-> contextMode = "voice", threw |-> FALSE]
       ELSE IF /\ TruthyNum(state.lastInteractionAt)
               /\ t - Val(state.lastInteractionAt) > adaptive.longIntervalThresholdMs
       THEN [ret |-> adaptive.longIntervalPreference = "voice", threw |-> FALSE]
       ELSE IF adaptive.followUserInputMode /\ TruthyStr(state.lastUserInputMode)
       THEN [ret |-> state.lastUserInputMode = "voice", threw |-> FALSE]
       ELSE IF TruthyStr(learned)
       THEN [ret |-> learned = "voice", threw |-> FALSE]
       ELSE [ret |-> schedule = "voice", threw |-> schedule = "throw"]

\* Steps 3 to 7 of shouldSendAsVoice: `state` is the object loaded before
\* step 2, `store` the store as step 2 left it (getLearnedPreference loads
\* it again).  Every Date.now() of one call reads the same instant t.
SoftDecision(store, config, state, userMessage, t) ==
    LET adaptive == config.rules.adaptiveRules
        contextMode ==
            IF MessageGiven(userMessage)
            THEN detectContextFromMessage(config, Val(userMessage)) ELSE "null"
        learned == getLearnedPreference(store, t)
        schedule == getSchedulePreference(config, t)
    IN IF TruthyStr(contextMode)
       THEN [ret |-> contextMode = "voice", threw |-> FALSE]
       ELSE IF adaptive.followUserInputMode /\ TruthyStr(state.lastUserInputMode)
       THEN [ret |-> state.lastUserInputMode = "voice", threw |-> FALSE]
       ELSE IF /\ TruthyNum(state.lastInteractionAt)
               /\ t - Val(state.lastInteractionAt) > adaptive.longIntervalThresholdMs
       THEN [ret |-> adaptive.longIntervalPreference = "voice", threw |-> FALSE]
       ELSE IF TruthyStr(learned)
       THEN [ret |-> learned = "voice", threw |-> FALSE]
       ELSE [ret |-> schedule = "voice", threw |-> schedule = "throw"]

\* the override consulted before the content of the response
shouldSendAsVoiceMutOverrideFirst(store, configFile, responseText, userMessage, t, writable) ==
    LET config == loadConfig(configFile)
        state == loadState(store)
        reset == setTemporaryMode(store, "auto", Null, t, writable)
        soft == SoftDecision(reset, config, state, userMessage, t)
        softAuto == SoftDecision(store, config, state, userMessage, t)
    IN IF state.currentMode # "auto" /\ ~HasExpired(state, t)
       THEN [ret |-> state.currentMode = "voice", threw |-> FALSE, store |-> store]
       ELSE IF mustUseText(config, responseText)
       THEN [ret |-> FALSE, threw |-> FALSE, store |-> store]
       ELSE IF state.currentMode # "auto"
       THEN [ret |-> soft.ret, threw |-> soft.threw, store |-> reset]
       ELSE [ret |-> softAuto.ret, threw |-> softAuto.threw, store |-> store]

\* a lapsed override that is skipped without being reset
shouldSendAsVoiceMutNoReset(store, configFile, responseText, userMessage, t, writable) ==
    LET config == loadConfig(configFile)
        state == loadState(store)
        soft == SoftDecision(store, config, state, userMessage, t)
    IN IF mustUseText(config, responseText)
       THEN [ret |-> FALSE, threw |-> FALSE, store |-> store]
       ELSE IF state.currentMode # "auto" /\ ~HasExpired(state, t)
       THEN [ret |-> state.currentMode = "voice", threw |-> FALSE, store |-> store]
       ELSE [ret |-> soft.ret, threw |-> soft.threw, store |-> store]

\* a decision that also records the interaction
shouldSendAsVoiceMutStampsInteraction(store, configFile, responseText, userMessage, t, writable) ==
    LET config == loadConfig(configFile)
        state == loadState(store)
        reset == setTemporaryMode(store, "auto", Null, t, writable)
        soft == SoftDecision(reset, config, state, userMessage, t)
        softAuto == SoftDecision(store, config, state, userMessage, t)
        stamped(s) == updateInteraction(s, "undefined", t, writable)
    IN IF mustUseText(config, responseText)
       THEN [ret |-> FALSE, threw |-> FALSE, store |-> store]
       ELSE IF state.currentMode # "auto" /\ ~HasExpired(state, t)
       THEN [ret |-> state.currentMode = "voice", threw |-> FALSE,
             store |-> stamped(store)]
       ELSE IF state.currentMode # "auto"
       THEN [ret |-> soft.ret, threw |-> soft.threw, store |-> stamped(reset)]
       ELSE [ret |-> softAuto.ret, threw |-> softAuto.threw, store |-> stamped(store)]

\* shouldSendAsVoice(responseText, userMessage): the value returned and the
\* store the call leaves behind
shouldSendAsVoice(store, configFile, responseText, userMessage, t, writable) ==
    LET config == loadConfig(configFile)
        state == loadState(store)
        reset == setTemporaryMode(store, "auto", Null, t, writable)
        soft == SoftDecision(reset, config, state, userMessage, t)
        softAuto == SoftDecision(store, config, state, userMessage, t)
    IN IF mustUseText(config, responseText)
       THEN [ret |-> FALSE, threw |-> FALSE, store |-> store]
       ELSE IF state.currentMode # "auto" /\ ~HasExpired(state, t)
       THEN [ret |-> state.currentMode = "voice", threw |-> FALSE, store |-> store]
       ELSE IF state.currentMode # "auto"
       THEN [ret |-> soft.ret, threw |-> soft.threw, store |-> reset]
       ELSE [ret |-> softAuto.ret, threw |-> softAuto.threw, store |-> store]

\* ------------------------------------------------------------- explanation

\* What the string explainDecision returns says: the rule it names, the
\* modality it names ("null" when it names none) and the minutes it prints
\* (<< >> when it prints none).
Explanation(rule, mode, minutes) ==
    [rule |-> rule, mode |-> mode, minutes |-> minutes, threw |-> FALSE]

\* Math.round(interval / 60000)
RoundedMinutes(interval) == (interval + 30 * MsPerSecond) \div MsPerMinute

\* explainDecision(responseText, userMessage); it loads the state and
\* writes nothing
explainDecision(store, configFile, responseText, userMessage, t) ==
    LET config == loadConfig(configFile)
        state == loadState(store)
        adaptive == config.rules.adaptiveRules
        contextMode ==
            IF MessageGiven(userMessage)
            THEN detectContextFromMessage(config, Val(userMessage)) ELSE "null"
        interval == t - Val(state.lastInteractionAt)
        learned == getLearnedPreference(store, t)
        schedule == getSchedulePreference(config, t)
    IN IF mustUseText(config, responseText)
       THEN Explanation("forceText", "text", Null)
       ELSE IF state.currentMode # "auto" /\ HasExpired(state, t)
       THEN Explanation("expired", "auto", Null)
       ELSE IF state.currentMode # "auto"
       THEN Explanation("temporaryMode", state.currentMode, Null)
       ELSE IF TruthyStr(contextMode)
       THEN Explanation("context", contextMode, Null)
       ELSE IF adaptive.followUserInputMode /\ TruthyStr(state.lastUserInputMode)
       THEN Explanation("followInput", state.lastUserInputMode, Null)
       ELSE IF /\ TruthyNum(state.lastInteractionAt)
               /\ interval > adaptive.longIntervalThresholdMs
       THEN Explanation("longInterval", "null", Num(RoundedMinutes(interval)))
       ELSE IF TruthyStr(learned)
       THEN Explanation("learned", learned, Null)
       ELSE IF schedule = "throw"
       THEN [Explanation("schedule", "null", Null) EXCEPT !.threw = TRUE]
       ELSE Explanation("schedule", schedule, Null)

\* ---------------------------------------------------------------- synthesis

\* path.join(tmpDir, `tts_${timestamp}.wav`) and its .opus sibling
WavPath(timestamp) == <<"tts", timestamp, "wav">>
OpusPath(timestamp) == <<"tts", timestamp, "opus">>

\* the digits of s from index i on
RECURSIVE DigitRun(_, _)
DigitRun(s, i) ==
    IF i <= Len(s) /\ IsDigit(s[i]) THEN <<s[i]>> \o DigitRun(s, i + 1) ELSE << >>

\* Math.round(parseFloat(durationStr) * 1000) for the output of the prober,
\* a decimal without sign or exponent; NaN (<< >>) when no number starts it
DurationMs(durationStr) ==
    LET int == DigitRun(durationStr, 1)
        hasPoint == Len(durationStr) > Len(int) /\ durationStr[Len(int) + 1] = "."
        frac == IF hasPoint THEN DigitRun(durationStr, Len(int) + 2) ELSE << >>
        Digit(k) == IF k <= Len(frac) THEN DigitValue(frac[k]) ELSE 0
        whole == IF Len(int) = 0 THEN 0 ELSE DigitsValue(int)
    IN IF Len(int) = 0 /\ Len(frac) = 0 THEN Null
       ELSE Num(whole * 1000 + Digit(1) * 100 + Digit(2) * 10 + Digit(3)
                + (IF Digit(4) >= 5 THEN 1 ELSE 0))

\* How a subprocess run by execSync ends: "ok" (exit 0, its output file
\* written), "fail" (non-zero exit, execSync throws, nothing written) or
\* "partial" (non-zero exit after the output file was created).
ExitKinds == {"ok", "fail", "partial"}

\* generateTTS(text) at the instant t with `files` in the temporary
\* directory.  named: the model directory holds <name>.onnx; engine and
\* transcoder: how sherpa-onnx-offline-tts and ffmpeg end; prober: << >>
\* when ffprobe fails, else <<its output>>.  Gives whether the promise is
\* rejected, the value it resolves to, the files left, the model file the
\* engine was given and how the subprocesses that ran ended.
generateTTS(configFile, text, t, files, named, engine, transcoder, prober) ==
    LET config == loadConfig(configFile)
        useZhEn == containsEnglish(text)
        modelConfig == IF useZhEn THEN config.models.zhen ELSE config.models.zh
        modelFile == IF named THEN <<modelConfig.name, ".onnx">> ELSE <<"model.onnx">>
        afterEngine == IF engine = "fail" THEN files ELSE files \cup {WavPath(t)}
        afterTranscoder ==
            IF transcoder = "fail" THEN afterEngine ELSE afterEngine \cup {OpusPath(t)}
        rejected(left, ran) ==
            [threw |-> TRUE, result |-> Null, files |-> left,
             modelFile |-> modelFile, ran |-> ran]
    IN IF engine # "ok" THEN rejected(afterEngine, <<engine>>)
       ELSE IF transcoder # "ok" THEN rejected(afterTranscoder, <<engine, transcoder>>)
       ELSE IF IsNull(prober) THEN rejected(afterTranscoder, <<engine, transcoder, "fail">>)
       ELSE [threw |-> FALSE,
             result |-> Num([opusPath |-> OpusPath(t),
                             durationMs |-> DurationMs(Val(prober))]),
             files |-> afterTranscoder \ {WavPath(t)},
             modelFile |-> modelFile,
             ran |-> <<engine, transcoder, "ok">>]

\* a sendVoiceMessage that goes on to upload and send after a failed synthesis
sendVoiceMessageMutUploadsAnyway(configFile, text, t, files, named, engine, transcoder, prober, upload, send) ==
    LET g == generateTTS(configFile, text, t, files, named, engine, transcoder, prober)
    IN [threw |-> upload # "ok" \/ send # "ok",
        result |-> Null,
        files |-> g.files \ {OpusPath(t)},
        modelFile |-> g.modelFile,
        ran |-> g.ran \o (IF upload # "ok" THEN <<upload>> ELSE <<upload, send>>)]

\* sendVoiceMessage({cfg, to, text, replyToMessageId}) at the instant t.
\* upload and send: whether uploadFileFeishu and sendAudioFeishu resolve
\* ("ok") or reject ("fail"); neither touches the temporary directory.
\* generateTTS is awaited before the try block: when it rejects, the finally
\* block does not run.
sendVoiceMessage(configFile, text, t, files, named, engine, transcoder, prober, upload, send) ==
    LET g == generateTTS(configFile, text, t, files, named, engine, transcoder, prober)
        released == g.files \ {OpusPath(t)}
        rejected(ran) ==
            [threw |-> TRUE, result |-> Null, files |-> released,
             modelFile |-> g.modelFile, ran |-> ran]
    IN IF g.threw THEN g
       ELSE IF upload # "ok" THEN rejected(g.ran \o <<upload>>)
       ELSE IF send # "ok" THEN rejected(g.ran \o <<upload, send>>)
       ELSE [threw |-> FALSE,
             result |-> Num([file |-> Val(g.result).opusPath,
                             duration |-> Val(g.result).durationMs]),
             files |-> released,
             modelFile |-> g.modelFile,
             ran |-> g.ran \o <<upload, send>>]

\* ------------------------------------------------------------- diagnostics

\* isTTSAvailable(): `installed` is what exists on disk of the runtime
\* binary ("runtime") and the directories under TTS_MODELS_DIR (their names)
isTTSAvailable(configFile, installed) ==
    LET config == loadConfig(configFile) IN
    /\ "runtime" \in installed
    /\ config.models.zh.name \in installed
    /\ config.models.zhen.name \in installed

\* getDebugInfo()
getDebugInfo(store, configFile, installed) ==
    [config |-> loadConfig(configFile),
     state |-> loadState(store),
     ttsAvailable |-> isTTSAvailable(configFile, installed)]

\* ------------------------------------------------------------------- state

VARIABLES
    now,          \* Date.now()
    configFile,   \* the file at SKILL_CONFIG_PATH
    stateFile,    \* the file at STATE_PATH
    defaultState, \* the DEFAULT_STATE object of the running process
    writable,     \* whether writeFileSync(STATE_PATH, ...) succeeds
    last,         \* the most recent call: operation, arguments, result
    hist,         \* every correction recorded so far, oldest first
    calls,        \* how many calls of the module's functions were made
    tmpFiles,     \* the files in os.tmpdir()
    inflight,     \* per caller: the call it is in the middle of, and its locals
    menu          \* the menu module: processedEventIds, its timers, customHandlers

vars ==
    <<now, configFile, stateFile, defaultState, writable, last, hist, calls,
      tmpFiles, inflight, menu>>

\* the callers that can be in the middle of a call at the same time
Callers == {"a", "b"}

Idle == [pc |-> "idle"]

\* no caller is in the middle of a call
NoneInFlight == [c \in Callers |-> Idle]

\* the menu module after its load: no event seen, no timer pending, no custom
\* handler registered, nothing routed
InitialMenu ==
    [processedEventIds |-> {}, timers |-> {}, customHandlers |-> {}, routed |-> << >>]

Store == [file |-> stateFile, mem |-> defaultState]

\* what loadState() returns in the current state
Loaded == loadState(Store)

NoCall ==
    [op |-> "none", text |-> << >>, msg |-> Null, mode |-> "null", dur |-> Null,
     ret |-> FALSE, threw |-> FALSE, pre |-> DEFAULT_STATE, ran |-> << >>,
     modelFile |-> << >>, result |-> Null]

\* ----------------------------------------------------------------- actions

\* time passes: the clock moves to a later instant of the set; `last` is
\* the call that returned at the current instant, so it is cleared
Tick(instants) ==
    /\ \E t \in instants : t > now /\ now' = t
    /\ last' = NoCall
    /\ UNCHANGED <<configFile, stateFile, defaultState, writable, hist, calls, tmpFiles,
                   inflight, menu>>

UpdateInteraction(inputModes) ==
    \E userInputMode \in inputModes :
        \E st \in {updateInteraction(Store, userInputMode, now, writable)} :
        /\ stateFile' = st.file
        /\ defaultState' = st.mem
        /\ last' = [NoCall EXCEPT !.op = "updateInteraction", !.mode = userInputMode]
        /\ calls' = calls + 1
        /\ UNCHANGED <<now, configFile, writable, hist, tmpFiles,
                   inflight, menu>>

SetTemporaryMode(modes, durations) ==
    \E mode \in modes, durationMs \in durations :
        \E st \in {setTemporaryMode(Store, mode, durationMs, now, writable)} :
        /\ stateFile' = st.file
        /\ defaultState' = st.mem
        /\ last' = [NoCall EXCEPT !.op = "setTemporaryMode", !.mode = mode,
                                  !.dur = durationMs]
        /\ calls' = calls + 1
        /\ UNCHANGED <<now, configFile, writable, hist, tmpFiles,
                   inflight, menu>>

RecordCorrection(targets) ==
    \E correctedTo \in targets :
        \E st \in {recordCorrection(Store, correctedTo, now, writable)} :
        /\ stateFile' = st.file
        /\ defaultState' = st.mem
        /\ last' = [NoCall EXCEPT !.op = "recordCorrection", !.mode = correctedTo]
        /\ hist' = Append(hist, CorrectionAt(now, correctedTo))
        /\ calls' = calls + 1
        /\ UNCHANGED <<now, configFile, writable, tmpFiles, inflight, menu>>

Decide(texts, messages) ==
    \E responseText \in texts, userMessage \in messages :
        \E r \in {shouldSendAsVoice(Store, configFile, responseText, userMessage,
                                  now, writable)} :
        /\ stateFile' = r.store.file
        /\ defaultState' = r.store.mem
        /\ last' = [NoCall EXCEPT !.op = "shouldSendAsVoice", !.text = responseText,
                                  !.msg = userMessage, !.ret = r.ret,
                                  !.threw = r.threw, !.pre = Loaded]
        /\ calls' = calls + 1
        /\ UNCHANGED <<now, configFile, writable, hist, tmpFiles,
                   inflight, menu>>

GenerateTTS(texts, probes) ==
    \E text \in texts, named \in BOOLEAN, engine \in ExitKinds,
       transcoder \in ExitKinds, prober \in probes :
        \E r \in {generateTTS(configFile, text, now, tmpFiles, named, engine,
                              transcoder, prober)} :
        /\ tmpFiles' = r.files
        /\ last' = [NoCall EXCEPT !.op = "generateTTS", !.text = text,
                                  !.threw = r.threw, !.ran = r.ran,
                                  !.modelFile = r.modelFile,
                                  !.result = r.result]
        /\ calls' = calls + 1
        /\ UNCHANGED <<now, configFile, stateFile, defaultState, writable, hist,
                   inflight, menu>>

SendVoiceMessage(texts, probes) ==
    \E text \in texts, named \in BOOLEAN, engine \in ExitKinds,
       transcoder \in ExitKinds, prober \in probes,
       upload \in {"ok", "fail"}, send \in {"ok", "fail"} :
        \E r \in {sendVoiceMessage(configFile, text, now, tmpFiles, named, engine,
                                   transcoder, prober, upload, send)} :
        /\ tmpFiles' = r.files
        /\ last' = [NoCall EXCEPT !.op = "sendVoiceMessage", !.text = text,
                                  !.threw = r.threw, !.ran = r.ran,
                                  !.modelFile = r.modelFile,
                                  !.result = r.result]
        /\ calls' = calls + 1
        /\ UNCHANGED <<now, configFile, stateFile, defaultState, writable, hist,
                   inflight, menu>>

Explain(texts, messages) ==
    \E responseText \in texts, userMessage \in messages :
        \E e \in {explainDecision(Store, configFile, responseText, userMessage, now)} :
        /\ last' = [NoCall EXCEPT !.op = "explainDecision", !.text = responseText,
                                  !.msg = userMessage, !.threw = e.threw,
                                  !.pre = Loaded, !.result = Num(e)]
        /\ calls' = calls + 1
        /\ UNCHANGED <<now, configFile, stateFile, defaultState, writable, hist,
                       tmpFiles, inflight, menu>>

GetDebugInfo(installations) ==
    \E installed \in installations :
        /\ last' = [NoCall EXCEPT !.op = "getDebugInfo",
                                  !.result = Num(getDebugInfo(Store, configFile,
                                                              installed))]
        /\ calls' = calls + 1
        /\ UNCHANGED <<now, configFile, stateFile, defaultState, writable, hist,
                       tmpFiles, inflight, menu>>

\* the file at STATE_PATH stops or starts accepting writes (permissions,
\* a full disk)
DiskChanges ==
    /\ writable' = ~writable
    /\ last' = NoCall
    /\ UNCHANGED <<now, configFile, stateFile, defaultState, hist, calls, tmpFiles,
                   inflight, menu>>

\* the process is started again: the module is loaded anew and builds a
\* fresh DEFAULT_STATE object
Restart ==
    /\ defaultState' = DEFAULT_STATE
    /\ last' = NoCall
    /\ UNCHANGED <<now, configFile, stateFile, writable, hist, calls, tmpFiles,
                   inflight, menu>>

\* ------------------------------------------------------------------ inputs

Repeat(c, n) == [i \in 1..n |-> c]

\* Friday 1970-01-09 08:00 in Asia/Shanghai
T0 == 8 * MsPerDay

\* the instants the clock visits: T0, the last millisecond of a 1000 ms
\* override set at T0, 09:00 (the override has lapsed, the interval since T0
\* is long, the schedule says text), the first millisecond after the
\* override, the first millisecond of a long interval, Saturday 08:00
InstantList ==
    <<T0, T0 + 1000, T0 + MsPerHour, T0 + 1001, T0 + 300001, T0 + MsPerDay>>

MaxInstants == 3
Instants == {InstantList[i] : i \in 1..MaxInstants}

\* calls made in one behaviour
MaxCalls == 2

\* a configuration file that overrides two leaves
CustomConfigFile ==
    [kind |-> "json",
     doc |-> [config |-> [rules |->
                [forceText |-> [maxChars |-> 8],
                 adaptiveRules |-> [longIntervalPreference |-> "text"]]]]]

ConfigFiles == {AbsentFile, CustomConfigFile}

\* state files earlier runs left behind: corrections recorded on the Friday
\* before, one an hour from 08:00 on
RECURSIVE PriorCorrections(_, _)
PriorCorrections(targets, t) ==
    IF Len(targets) = 0 THEN << >>
    ELSE <<CorrectionAt(t, Head(targets))>>
         \o PriorCorrections(Tail(targets), t + MsPerHour)

PriorFile(targets) ==
    [kind |-> "json",
     doc |-> [DEFAULT_STATE EXCEPT
                !.corrections = PriorCorrections(targets, T0 - 7 * MsPerDay)]]

InitialStateFiles ==
    {AbsentFile, PriorFile(<<"text", "text">>), PriorFile(<<"text", "text", "text">>),
     PriorFile(<<"voice", "text", "voice">>)}

PlainText == <<"ni","hao">>
FencedText == <<Backtick, Backtick, Backtick, "x", Backtick, Backtick, Backtick>>
AtLimitText == Repeat("ha", 8)
OverLimitText == Repeat("ha", 9)

ResponseTexts == {PlainText, FencedText, AtLimitText, OverLimitText}

UserMessages ==
    {Null, Num(<<"kai","che">>), Num(<<"mang">>), Num(<<"mang","kai","che">>)}

Modes == {"auto", "voice", "text"}
Modalities == {"voice", "text"}
InputModes == {"undefined", "voice", "text"}
Durations == {Null, Num(1000)}

\* ----------------------------------------------------------- specification

Init ==
    /\ now = T0
    /\ configFile \in ConfigFiles
    /\ stateFile \in InitialStateFiles
    /\ defaultState = DEFAULT_STATE
    /\ writable = TRUE
    /\ last = NoCall
    /\ hist = loadState([file |-> stateFile, mem |-> DEFAULT_STATE]).corrections
    /\ calls = 0
    /\ tmpFiles = {}
    /\ inflight = NoneInFlight
    /\ menu = InitialMenu

Next ==
    \/ Tick(Instants)
    \/ calls < MaxCalls /\ UpdateInteraction(InputModes)
    \/ calls < MaxCalls /\ SetTemporaryMode(Modes, Durations)
    \/ calls < MaxCalls /\ RecordCorrection(Modalities)
    \/ calls < MaxCalls /\ Decide(ResponseTexts, UserMessages)

Spec == Init /\ [][Next]_vars

\* ------------------------------------------------- the decision procedure

\* the configuration every call of the current state loads
Config == loadConfig(configFile)

\* what loadState() returns in a process started now
Persisted == loadState([file |-> stateFile, mem |-> DEFAULT_STATE])

\* shouldSendAsVoice has just returned
Decided == last.op = "shouldSendAsVoice"

\* the response text of the call holds two fences, the second after the first
TextIsFenced ==
    \E i, j \in 1..Len(last.text) :
        j >= i + 3 /\ OccursAt(last.text, Fence, i) /\ OccursAt(last.text, Fence, j)

\* the call found an override that had not lapsed
OverrideInForce ==
    /\ last.pre.currentMode \in {"voice", "text"}
    /\ IsNull(last.pre.modeExpiresAt) \/ now <= Val(last.pre.modeExpiresAt)

\* the call found an override whose expiry was in the past
OverrideLapsed ==
    /\ last.pre.currentMode \in {"voice", "text"}
    /\ ~IsNull(last.pre.modeExpiresAt)
    /\ now > Val(last.pre.modeExpiresAt)

\* C1: with the code-block rule enabled, a response text that contains a
\* fenced code block is sent as text, whatever the state (an override to
\* voice included), the user message, the clock and the corrections are.
FencedBlockIsText ==
    (Decided /\ Config.rules.forceText.codeBlocks /\ TextIsFenced)
        => (~last.ret /\ ~last.threw)

FencedBlockUnderVoiceOverride ==
    /\ Decided /\ TextIsFenced /\ Config.rules.forceText.codeBlocks
    /\ OverrideInForce /\ last.pre.currentMode = "voice"
    /\ ~IsNull(last.msg) /\ ~last.ret

\* the response text is n times the character "ha": no code, no table, no
\* technical word
PlainOfLength(n) == Len(last.text) = n /\ \A i \in 1..n : last.text[i] = "ha"

\* C2: a response text longer than forceText.maxChars is sent as text in
\* every state and for every user message; a text of exactly maxChars
\* characters does not trip the length rule (under an override to voice it
\* is sent as voice).
OverLengthIsText ==
    /\ (Decided /\ Len(last.text) > Config.rules.forceText.maxChars) => ~last.ret
    /\ (/\ Decided /\ PlainOfLength(Config.rules.forceText.maxChars)
        /\ OverrideInForce /\ last.pre.currentMode = "voice") => last.ret

OverLengthUnderVoiceOverride ==
    /\ Decided /\ PlainOfLength(Config.rules.forceText.maxChars + 1)
    /\ OverrideInForce /\ last.pre.currentMode = "voice"
    /\ ~last.ret

\* C3: an override to voice or text that has not lapsed (no expiry, or an
\* expiry not yet passed) fixes the decision when no force-text rule fires:
\* true for voice, false for text, whatever the keywords, the last input
\* mode, the silence, the corrections and the schedule say.
OverrideDecides ==
    (Decided /\ OverrideInForce /\ ~mustUseText(Config, last.text))
        => (last.ret = (last.pre.currentMode = "voice") /\ ~last.threw)

VoiceOverrideBeatsTextKeyword ==
    /\ Decided /\ ~mustUseText(Config, last.text)
    /\ last.pre.currentMode = "voice"
    /\ ~IsNull(last.pre.modeExpiresAt) /\ now <= Val(last.pre.modeExpiresAt)
    /\ last.msg = Num(<<"mang">>)
    /\ last.ret

\* the value the call would have returned had it found currentMode = auto
DecisionAsIfAuto ==
    shouldSendAsVoice(
        [file |-> [kind |-> "json",
                   doc |-> [last.pre EXCEPT !.currentMode = "auto"]],
         mem |-> DEFAULT_STATE],
        configFile, last.text, last.msg, now, TRUE).ret

\* C4 as stated: a call that finds a lapsed override leaves currentMode =
\* auto in the persisted state and returns what it would have returned with
\* currentMode = auto.
LapsedOverrideIsReset ==
    (Decided /\ OverrideLapsed)
        => (Persisted.currentMode = "auto" /\ last.ret = DecisionAsIfAuto)

\* C4: a call whose response text trips no force-text rule and that finds a
\* lapsed override leaves currentMode = auto in the persisted state and
\* returns what it would have returned with currentMode = auto.
LapsedOverrideIsResetUnlessForcedText ==
    (Decided /\ OverrideLapsed /\ ~mustUseText(Config, last.text))
        => (/\ Persisted.currentMode = "auto"
            /\ IsNull(Persisted.modeExpiresAt)
            /\ last.ret = DecisionAsIfAuto)

LapsedVoiceOverrideFallsThrough ==
    /\ Decided /\ OverrideLapsed /\ ~mustUseText(Config, last.text)
    /\ last.pre.currentMode = "voice"
    /\ Persisted.currentMode = "auto"
    /\ ~last.ret

\* a keyword of the list occurs in the user message of the call
MessageHas(keywords) ==
    /\ MessageGiven(last.msg)
    /\ \E n \in DOMAIN keywords : Includes(Val(last.msg), keywords[n])

\* the call found currentMode = auto and a response text no rule forces to
\* text
SoftSignalsDecide ==
    Decided /\ last.pre.currentMode = "auto" /\ ~mustUseText(Config, last.text)

\* The soft score of the specification's decision procedure, in hundredths:
\* keyword 60, last input mode 30, schedule 20, long silence 15, learned
\* pattern 25, each signed by the modality it favours.
SpecScore(config, state, userMessage, learned, schedule, t) ==
    LET Signed(pref, weight) ==
            IF pref = "voice" THEN weight ELSE IF pref = "text" THEN 0 - weight ELSE 0
        adaptive == config.rules.adaptiveRules
        context ==
            IF MessageGiven(userMessage)
            THEN detectContextFromMessage(config, Val(userMessage)) ELSE "null"
        silent ==
            /\ ~IsNull(state.lastInteractionAt)
            /\ t - Val(state.lastInteractionAt) > adaptive.longIntervalThresholdMs
    IN Signed(context, 60)
       + (IF adaptive.followUserInputMode
          THEN Signed(state.lastUserInputMode, 30) ELSE 0)
       + Signed(schedule, 20)
       + (IF silent THEN Signed(adaptive.longIntervalPreference, 15) ELSE 0)
       + Signed(learned, 25)

MutationsArePersisted ==
    /\ last.op = "setTemporaryMode" =>
          /\ Persisted.currentMode = last.mode
          /\ Persisted.modeSetAt = Num(now)
          /\ Persisted.modeExpiresAt =
                IF IsNull(last.dur) THEN Null ELSE Num(now + Val(last.dur))
    /\ last.op = "recordCorrection" =>
          /\ Len(Persisted.corrections) > 0
          /\ Persisted.corrections[Len(Persisted.corrections)].timestamp = now
          /\ Persisted.corrections[Len(Persisted.corrections)].correctedTo = last.mode
    /\ last.op = "updateInteraction" =>
          /\ Persisted.lastInteractionAt = Num(now)
          /\ last.mode \in Modalities => Persisted.lastUserInputMode = last.mode
    /\ last.op # "none" => Loaded = Persisted

VoiceForOneSecondPersisted ==
    /\ last.op = "setTemporaryMode" /\ last.mode = "voice" /\ last.dur = Num(1000)
    /\ stateFile.kind = "json"
    /\ stateFile.doc.currentMode = "voice"
    /\ stateFile.doc.modeExpiresAt = Num(now + 1000)

\* the call found no signal but the corrections and the schedule
OnlyLearnedAndSchedule ==
    /\ SoftSignalsDecide
    /\ ~MessageHas(Config.rules.contextKeywords.voice)
    /\ ~MessageHas(Config.rules.contextKeywords.text)
    /\ last.pre.lastUserInputMode = "null"
    /\ \/ IsNull(last.pre.lastInteractionAt)
       \/ now - Val(last.pre.lastInteractionAt)
             <= Config.rules.adaptiveRules.longIntervalThresholdMs

\* C9: with fewer than three corrections in the history the learned
\* preference is none at every clock time and for every content of the
\* entries, and a decision with no other signal (auto mode, no keyword, no
\* known last input mode, no long silence) is the schedule preference.
FewCorrectionsLeaveSchedule ==
    /\ Len(Loaded.corrections) < 3 => getLearnedPreference(Store, now) = "null"
    /\ (OnlyLearnedAndSchedule /\ Len(last.pre.corrections) < 3)
          => last.ret = (getSchedulePreference(Config, now) = "voice")

TwoTextCorrectionsVoiceSchedule ==
    /\ OnlyLearnedAndSchedule
    /\ Len(last.pre.corrections) = 2
    /\ \A i \in 1..2 :
          /\ last.pre.corrections[i].correctedTo = "text"
          /\ last.pre.corrections[i].dayOfWeek = getDay(now)
          /\ AbsDiff(last.pre.corrections[i].hour, getHours(now)) <= 2
    /\ last.ret

\* -------------------------------------------------- the cap on corrections

\* n targets, voice and text in turn
AlternatingTargets(n) == [i \in 1..n |-> IF i % 2 = 1 THEN "voice" ELSE "text"]

\* the state file before the first call, and the files that earlier runs
\* left with the list at the cap or within MaxCalls entries of it
CapStateFiles ==
    {AbsentFile}
    \cup {PriorFile(AlternatingTargets(n)) :
            n \in (MaxCorrections - MaxCalls)..MaxCorrections}

InitCap ==
    /\ now = T0
    /\ configFile = AbsentFile
    /\ stateFile \in CapStateFiles
    /\ defaultState = DEFAULT_STATE
    /\ writable = TRUE
    /\ last = NoCall
    /\ hist = loadState([file |-> stateFile, mem |-> DEFAULT_STATE]).corrections
    /\ calls = 0
    /\ tmpFiles = {}
    /\ inflight = NoneInFlight
    /\ menu = InitialMenu

NextCap ==
    \/ Tick(Instants)
    \/ calls < MaxCalls /\ RecordCorrection(Modalities)
    \/ calls < MaxCalls /\ UpdateInteraction(InputModes)
    \/ calls < MaxCalls /\ SetTemporaryMode(Modes, Durations)

SpecCap == InitCap /\ [][NextCap]_vars

\* C6: after n calls of recordCorrection, with other state operations in
\* between, the persisted list holds min(n, 50) entries: the most recent
\* ones, in the order they were recorded.
CorrectionsAreMostRecent ==
    LET kept == Persisted.corrections
        n == Len(hist)
        m == IF n < MaxCorrections THEN n ELSE MaxCorrections
    IN /\ Len(kept) = m
       /\ \A i \in 1..m : kept[i] = hist[n - m + i]

OldestCorrectionEvicted ==
    /\ last.op = "recordCorrection"
    /\ Len(hist) = MaxCorrections + 1
    /\ Len(Persisted.corrections) = MaxCorrections
    /\ Persisted.corrections[1] = hist[2]
    /\ Persisted.corrections[MaxCorrections] = hist[MaxCorrections + 1]
    /\ hist[1] # hist[2]

\* ------------------------------------------------- the schedule preference

Pad2(n) == <<Digits[(n \div 10) + 1], Digits[(n % 10) + 1]>>

\* "HH:MM-HH:MM" for a range given as <<start hour, start minute, end hour,
\* end minute>>
RangeKey(r) ==
    Pad2(r[1]) \o <<":">> \o Pad2(r[2]) \o <<"-">> \o Pad2(r[3]) \o <<":">> \o Pad2(r[4])

\* a configuration file whose weekday schedule is the one range, for text
SingleRangeFile(r) ==
    [kind |-> "json",
     doc |-> [config |-> [rules |-> [schedule |->
                [weekday |-> << <<RangeKey(r), "text">> >>]]]]]

\* a range over midnight, a range within the day, an empty range, a range
\* from midnight, a range over midnight that ends where the day's first
\* half hour ends
ScheduleRanges ==
    {<<19, 0, 7, 0>>, <<8, 30, 12, 0>>, <<9, 0, 9, 0>>, <<0, 0, 0, 30>>,
     <<23, 30, 0, 30>>}

ScheduleConfigFiles == {AbsentFile} \cup {SingleRangeFile(r) : r \in ScheduleRanges}

\* days the clock covers, from Friday 1970-01-09 00:00 in Asia/Shanghai
MaxDays == 2

\* every half hour of those days
ScheduleInstants ==
    {T0 - 8 * MsPerHour + k * 30 * MsPerMinute : k \in 0..(48 * MaxDays - 1)}

AskSchedule ==
    /\ last' = [NoCall EXCEPT !.op = "getSchedulePreference",
                              !.mode = getSchedulePreference(Config, now)]
    /\ UNCHANGED <<now, configFile, stateFile, defaultState, writable, hist, calls, tmpFiles,
                   inflight, menu>>

InitSchedule ==
    /\ now = T0 - 8 * MsPerHour
    /\ configFile \in ScheduleConfigFiles
    /\ stateFile = AbsentFile
    /\ defaultState = DEFAULT_STATE
    /\ writable = TRUE
    /\ last = NoCall
    /\ hist = << >>
    /\ calls = 0
    /\ tmpFiles = {}
    /\ inflight = NoneInFlight
    /\ menu = InitialMenu

NextSchedule ==
    \/ Tick(ScheduleInstants)
    \/ AskSchedule

SpecSchedule == InitSchedule /\ [][NextSchedule]_vars

\* minutes since midnight in Asia/Shanghai, and whether the day is Monday
\* to Friday
MinuteOfDay == ((now + 8 * MsPerHour) % MsPerDay) \div MsPerMinute
IsWeekday == ((4 + ((now + 8 * MsPerHour) \div MsPerDay)) % 7) \in 1..5

AskedSchedule == last.op = "getSchedulePreference"

\* C7: on a weekday a range "HH:MM-HH:MM" matches the time of day t iff
\* start <= t < end when start <= end, and iff t >= start or t < end when
\* start > end.  With the default ranges 08:00 resolves to voice, 08:30 and
\* 09:00 to text; "19:00-07:00" matches 23:00 and 02:00 and not 07:00.
\* (With the one range, for text, the preference is text iff it matches.)
ScheduleRangeMatches ==
    /\ \A r \in ScheduleRanges :
          (AskedSchedule /\ IsWeekday /\ configFile = SingleRangeFile(r)) =>
              LET start == r[1] * 60 + r[2]
                  end == r[3] * 60 + r[4]
                  t == MinuteOfDay
              IN (last.mode = "text") <=>
                    IF start <= end THEN start <= t /\ t < end
                    ELSE t >= start \/ t < end
    /\ (AskedSchedule /\ IsWeekday /\ configFile = AbsentFile) =>
          /\ MinuteOfDay = 8 * 60 => last.mode = "voice"
          /\ MinuteOfDay \in {8 * 60 + 30, 9 * 60} => last.mode = "text"
    /\ (AskedSchedule /\ IsWeekday /\ configFile = SingleRangeFile(<<19, 0, 7, 0>>)) =>
          /\ MinuteOfDay \in {23 * 60, 2 * 60} => last.mode = "text"
          /\ MinuteOfDay = 7 * 60 => last.mode = "voice"

OvernightRangeMatchesLateEvening ==
    /\ AskedSchedule /\ IsWeekday
    /\ configFile = SingleRangeFile(<<19, 0, 7, 0>>)
    /\ MinuteOfDay = 23 * 60
    /\ last.mode = "text"

\* ------------------------------------------------------------ the pipeline

EnglishText == <<"O", "K">>

\* what the prober prints: a duration, nothing, a text that is no number
ProbeOutputs == {<<"2", ".", "5", "2", "0", "0", "0", "0">>, << >>, <<"N", "/", "A">>}

ProbeOutcomes == {Null} \cup {Num(s) : s \in ProbeOutputs}

InitTTS ==
    /\ now = T0
    /\ configFile \in ConfigFiles
    /\ stateFile = AbsentFile
    /\ defaultState = DEFAULT_STATE
    /\ writable = TRUE
    /\ last = NoCall
    /\ hist = << >>
    /\ calls = 0
    /\ tmpFiles = {}
    /\ inflight = NoneInFlight
    /\ menu = InitialMenu

NextTTS ==
    \/ Tick(Instants)
    \/ calls < MaxCalls /\ GenerateTTS({PlainText, EnglishText}, ProbeOutcomes)

SpecTTS == InitTTS /\ [][NextTTS]_vars

\* C10: a call of generateTTS in which the engine succeeded and the
\* transcoder failed reports the failure to the caller and leaves no wav
\* file of its own on disk.
WavDeletedWhenTranscoderFails ==
    (/\ last.op = "generateTTS"
     /\ Len(last.ran) = 2 /\ last.ran[1] = "ok" /\ last.ran[2] # "ok")
    => (last.threw /\ WavPath(now) \notin tmpFiles)

\* ------------------------------------------------------- sending as voice

NextSend ==
    \/ Tick(Instants)
    \/ calls < MaxCalls /\ GenerateTTS({PlainText, EnglishText}, ProbeOutcomes)
    \/ calls < MaxCalls /\ SendVoiceMessage({PlainText, EnglishText}, ProbeOutcomes)

SpecSend == InitTTS /\ [][NextSend]_vars

\* C11: when sendVoiceMessage has returned or thrown (the upload or the
\* send rejected, or the prober failed after the transcoder wrote the
\* artifact) the opus file of the request is not on disk.
OpusReleasedOnEveryExit ==
    last.op = "sendVoiceMessage" => OpusPath(now) \notin tmpFiles

\* ------------------------------------------------------- the soft signals

\* the call got past the hard rules: no force-text content and no override
\* in force (currentMode = auto, or an override that had lapsed)
SoftPath == Decided /\ ~mustUseText(Config, last.text) /\ ~OverrideInForce

\* the score of the specification for the call
ScoreOfCall ==
    SpecScore(Config, last.pre, last.msg, getLearnedPreference(Store, now),
              getSchedulePreference(Config, now), now)

\* the call found a last interaction longer ago than the threshold
LongSilence ==
    /\ ~IsNull(last.pre.lastInteractionAt)
    /\ now - Val(last.pre.lastInteractionAt)
          > Config.rules.adaptiveRules.longIntervalThresholdMs

\* the preference of the first soft signal that has one, in the order
\* keyword, last input mode, long silence, learned pattern, schedule
FirstSoftSignal ==
    IF MessageHas(Config.rules.contextKeywords.voice) THEN "voice"
    ELSE IF MessageHas(Config.rules.contextKeywords.text) THEN "text"
    ELSE IF /\ Config.rules.adaptiveRules.followUserInputMode
            /\ last.pre.lastUserInputMode \in {"voice", "text"}
    THEN last.pre.lastUserInputMode
    ELSE IF LongSilence THEN Config.rules.adaptiveRules.longIntervalPreference
    ELSE IF getLearnedPreference(Store, now) \in {"voice", "text"}
    THEN getLearnedPreference(Store, now)
    ELSE getSchedulePreference(Config, now)

FirstApplicableRuleDecides ==
    Decided =>
        /\ ~last.threw
        /\ last.ret =
              IF mustUseText(Config, last.text) THEN FALSE
              ELSE IF OverrideInForce THEN last.pre.currentMode = "voice"
              ELSE FirstSoftSignal = "voice"

TextOverrideBeatsVoiceSignals ==
    /\ Decided /\ ~mustUseText(Config, last.text)
    /\ OverrideInForce /\ last.pre.currentMode = "text"
    /\ MessageHas(Config.rules.contextKeywords.voice)
    /\ getSchedulePreference(Config, now) = "voice"
    /\ ~last.ret

\* ---------------------------------------------------------- the explanation

NextExplain ==
    \/ Tick(Instants)
    \/ calls < MaxCalls /\ UpdateInteraction(InputModes)
    \/ calls < MaxCalls /\ SetTemporaryMode(Modes, Durations)
    \/ calls < MaxCalls /\ RecordCorrection(Modalities)
    \/ calls < MaxCalls /\ Explain(ResponseTexts, UserMessages)

SpecExplain == Init /\ [][NextExplain]_vars

Explained == last.op = "explainDecision"

\* the rule that fixes what shouldSendAsVoice returns for the arguments and
\* the state of the call
DecidingRule ==
    IF mustUseText(Config, last.text) THEN "forceText"
    ELSE IF OverrideInForce THEN "temporaryMode"
    ELSE IF MessageHas(Config.rules.contextKeywords.voice)
            \/ MessageHas(Config.rules.contextKeywords.text) THEN "context"
    ELSE IF /\ Config.rules.adaptiveRules.followUserInputMode
            /\ last.pre.lastUserInputMode \in {"voice", "text"} THEN "followInput"
    ELSE IF LongSilence THEN "longInterval"
    ELSE IF getLearnedPreference(Store, now) \in {"voice", "text"} THEN "learned"
    ELSE "schedule"

\* C14: the rule or signal explainDecision reports is the one that fixes
\* the value shouldSendAsVoice returns for the same arguments, state,
\* configuration and clock, also when an override has lapsed (the
\* explanation then names the soft signal that decides).
ExplainNamesDecidingRule ==
    Explained => Val(last.result).rule = DecidingRule

\* ------------------------------------------------ the configuration source

\* a file JSON.parse rejects
GarbageFile == [kind |-> "garbage", doc |-> EmptyObj]

\* {} and {"config": {}}: parseable, every field missing
EmptyDocFile == [kind |-> "json", doc |-> EmptyObj]
EmptyConfigFile == [kind |-> "json", doc |-> [config |-> EmptyObj]]

\* a timezone Intl does not know
BadTimezoneFile ==
    [kind |-> "json",
     doc |-> [config |-> [rules |-> [schedule |-> [timezone |-> "Mars/Olympus"]]]]]

\* a timezone other than the default one
UtcFile ==
    [kind |-> "json",
     doc |-> [config |-> [rules |-> [schedule |-> [timezone |-> "UTC"]]]]]

ConfigSources ==
    {AbsentFile, GarbageFile, EmptyDocFile, EmptyConfigFile, BadTimezoneFile, UtcFile}

InitConfig ==
    /\ now = T0
    /\ configFile \in ConfigSources
    /\ stateFile = AbsentFile
    /\ defaultState = DEFAULT_STATE
    /\ writable = TRUE
    /\ last = NoCall
    /\ hist = << >>
    /\ calls = 0
    /\ tmpFiles = {}
    /\ inflight = NoneInFlight
    /\ menu = InitialMenu

SpecConfig == InitConfig /\ [][Next]_vars

\* C15: whatever the configuration source holds (nothing, a text that does
\* not parse, a document with missing or unusable fields such as an invalid
\* timezone), shouldSendAsVoice returns a boolean and does not raise.
DecideNeverRaises == Decided => ~last.threw

\* ------------------------------------------------ merging the configuration

\* a document that overrides one leaf of a nested object of `models`
PartialModelFile ==
    [kind |-> "json",
     doc |-> [config |-> [models |-> [zh |-> [name |-> "vits-zh-custom"]]]]]

\* a document that overrides one leaf of every section of `rules`
PartialRulesFile ==
    [kind |-> "json",
     doc |-> [config |-> [rules |->
                [forceText |-> [tables |-> FALSE],
                 schedule |-> [weekend |-> "text"],
                 contextKeywords |-> [text |-> << <<"mang">> >>],
                 adaptiveRules |-> [followUserInputMode |-> FALSE]]]]]

MergedConfigSources ==
    {AbsentFile, EmptyConfigFile, CustomConfigFile, PartialModelFile, PartialRulesFile}

\* nothing installed; the runtime and the two default models; the runtime
\* and the models PartialModelFile names
Installations ==
    {{},
     {"runtime", "vits-zh-hf-fanchen-C", "vits-melo-tts-zh_en"},
     {"runtime", "vits-zh-custom", "vits-melo-tts-zh_en"}}

InitLoad ==
    /\ now = T0
    /\ configFile \in MergedConfigSources
    /\ stateFile = AbsentFile
    /\ defaultState = DEFAULT_STATE
    /\ writable = TRUE
    /\ last = NoCall
    /\ hist = << >>
    /\ calls = 0
    /\ tmpFiles = {}
    /\ inflight = NoneInFlight
    /\ menu = InitialMenu

NextLoad ==
    \/ Tick(Instants)
    \/ calls < MaxCalls /\ UpdateInteraction(InputModes)
    \/ calls < MaxCalls /\ SetTemporaryMode(Modes, Durations)
    \/ calls < MaxCalls /\ GetDebugInfo(Installations)

SpecLoad == InitLoad /\ [][NextLoad]_vars

\* the paths of the leaves of the default configuration
LeafPaths ==
    {<<"models", "zh", "name">>, <<"models", "zh", "lengthScale">>,
     <<"models", "zhen", "name">>, <<"models", "zhen", "lengthScale">>,
     <<"rules", "forceText", "maxChars">>, <<"rules", "forceText", "codeBlocks">>,
     <<"rules", "forceText", "tables">>, <<"rules", "forceText", "techKeywords">>,
     <<"rules", "schedule", "timezone">>, <<"rules", "schedule", "weekday">>,
     <<"rules", "schedule", "weekend">>,
     <<"rules", "contextKeywords", "voice">>, <<"rules", "contextKeywords", "text">>,
     <<"rules", "adaptiveRules", "followUserInputMode">>,
     <<"rules", "adaptiveRules", "longIntervalThresholdMs">>,
     <<"rules", "adaptiveRules", "longIntervalPreference">>}

\* the object has a value at the path / the value there
RECURSIVE HasPath(_, _)
HasPath(obj, path) ==
    \/ Len(path) = 0
    \/ Head(path) \in DOMAIN obj /\ HasPath(obj[Head(path)], Tail(path))

RECURSIVE AtPath(_, _)
AtPath(obj, path) ==
    IF Len(path) = 0 THEN obj ELSE AtPath(obj[Head(path)], Tail(path))

\* the `config` member of the document in the configuration file
SuppliedConfig ==
    IF configFile.kind = "json" THEN Member(configFile.doc, "config") ELSE EmptyObj

\* C16: the configuration loaded has every leaf of the defaults, and a leaf
\* the document does not supply has its default value: overriding one leaf
\* of a nested object (models.zh.name) does not drop its siblings
\* (models.zh.lengthScale).
DefaultLeavesKept ==
    last.op = "getDebugInfo" =>
        \A path \in LeafPaths :
            /\ HasPath(Val(last.result).config, path)
            /\ ~HasPath(SuppliedConfig, path) =>
                  AtPath(Val(last.result).config, path) = AtPath(DEFAULT_CONFIG, path)

\* ------------------------------------------------- a state file that fails

InitFault ==
    /\ now = T0
    /\ configFile = AbsentFile
    /\ stateFile \in {AbsentFile, GarbageFile}
    /\ defaultState = DEFAULT_STATE
    /\ writable \in BOOLEAN
    /\ last = NoCall
    /\ hist = << >>
    /\ calls = 0
    /\ tmpFiles = {}
    /\ inflight = NoneInFlight
    /\ menu = InitialMenu

NextFault ==
    \/ Tick(Instants)
    \/ DiskChanges
    \/ Restart
    \/ calls < MaxCalls /\ UpdateInteraction(InputModes)
    \/ calls < MaxCalls /\ SetTemporaryMode(Modes, Durations)
    \/ calls < MaxCalls /\ RecordCorrection(Modalities)
    \/ calls < MaxCalls /\ GetDebugInfo(Installations)

SpecFault == InitFault /\ [][NextFault]_vars

\* C17: when the state file is missing or does not parse, loadState returns
\* the defaults (currentMode auto, the timestamps null, lastUserInputMode
\* null, no corrections), whatever operations came before, those whose
\* save failed included; and no operation raises when its save fails.
LoadDegradesToDefaults ==
    /\ (last.op = "getDebugInfo" /\ stateFile.kind # "json") =>
          /\ Val(last.result).state.currentMode = "auto"
          /\ Val(last.result).state.modeSetAt = Null
          /\ Val(last.result).state.modeExpiresAt = Null
          /\ Val(last.result).state.lastUserInputMode = "null"
          /\ Val(last.result).state.lastInteractionAt = Null
          /\ Val(last.result).state.corrections = << >>
    /\ last.op \in {"updateInteraction", "setTemporaryMode", "recordCorrection"}
          => ~last.threw

\* ------------------------------------------------ the length of an override

\* no duration, a duration of zero, one second
GivenDurations == {Null, Num(0), Num(1000)}

NextDuration ==
    \/ Tick(Instants)
    \/ calls < MaxCalls /\ SetTemporaryMode(Modes, GivenDurations)
    \/ calls < MaxCalls /\ UpdateInteraction(InputModes)
    \/ calls < MaxCalls /\ Decide({PlainText}, {Null})

SpecDuration == Init /\ [][NextDuration]_vars

\* C18: setTemporaryMode(mode, durationMs) leaves currentMode = mode and
\* modeSetAt = now, and modeExpiresAt = now + durationMs for every duration
\* given, zero included; modeExpiresAt is null only when none is given.
ExpiryIsNowPlusDuration ==
    last.op = "setTemporaryMode" =>
        /\ Persisted.currentMode = last.mode
        /\ Persisted.modeSetAt = Num(now)
        /\ IsNull(last.dur) => IsNull(Persisted.modeExpiresAt)
        /\ ~IsNull(last.dur) => Persisted.modeExpiresAt = Num(now + Val(last.dur))

\* ------------------------------------------------ recording an interaction

\* C19: updateInteraction stamps lastInteractionAt with the current time, stores
\* the input mode when one is given and keeps the stored one otherwise; the
\* override (currentMode, modeSetAt, modeExpiresAt) and the corrections stay
\* as they were, and the state file holds the result.
InteractionTouchesOnlyItsFields ==
    [][last'.op = "updateInteraction" =>
        LET before == Loaded
            after == Persisted'
        IN /\ after.lastInteractionAt = Num(now')
           /\ after.lastUserInputMode =
                 IF last'.mode \in {"voice", "text"} THEN last'.mode
                 ELSE before.lastUserInputMode
           /\ after.currentMode = before.currentMode
           /\ after.modeSetAt = before.modeSetAt
           /\ after.modeExpiresAt = before.modeExpiresAt
           /\ after.corrections = before.corrections
           /\ Loaded' = after]_vars

\* a call without an input mode has left the stored "voice" and the stored
\* corrections in place
OmittedModeKeepsVoice ==
    /\ last.op = "updateInteraction"
    /\ last.mode = "undefined"
    /\ Persisted.lastUserInputMode = "voice"
    /\ Persisted.lastInteractionAt = Num(now)
    /\ Len(Persisted.corrections) > 0

\* ------------------------------------------------------- command detection

\* a possibly absent string: << >> when undefined, <<s>> when the string s
\* (the empty string is <<<< >>>>)
Undefined == << >>
Str(s) == <<s>>

\* a ?? b
Coalesce(a, b) == IF a = Undefined THEN b ELSE a
\* a || b
CoalesceMutFalsy(a, b) == IF a = Undefined \/ a = Str(<< >>) THEN b ELSE a

simulateFinalizeInboundContextMutFalsy(ctx) ==
    [ctx EXCEPT !.BodyForCommands =
        CoalesceMutFalsy(ctx.BodyForCommands,
            CoalesceMutFalsy(ctx.CommandBody,
                CoalesceMutFalsy(ctx.RawBody, ctx.Body)))]

\* { ...ctx } with BodyForCommands ?? CommandBody ?? RawBody ?? Body
simulateFinalizeInboundContext(ctx) ==
    [ctx EXCEPT !.BodyForCommands =
        Coalesce(ctx.BodyForCommands,
            Coalesce(ctx.CommandBody, Coalesce(ctx.RawBody, ctx.Body)))]

\* \s of a regular expression, over the characters of the model
SpaceChars == {" ", "\t", "\n", "\r"}
IsSpace(c) == c \in SpaceChars
\* [ \t]
BlankChars == {" ", "\t"}
\* [A-Za-z0-9+()\-_. ]
SpeakerChars ==
    LowerSet \cup UpperSet \cup DigitSet \cup {"+", "(", ")", "-", "_", ".", " "}
\* \w
WordChars == LowerSet \cup UpperSet \cup DigitSet \cup {"_"}

\* the first index at or after i whose character is outside the class,
\* Len(s) + 1 if none: where a greedy run of the class from i ends
RunEnd(s, i, class) ==
    LET stops == {k \in i..Len(s) : s[k] \notin class}
    IN IF stops = {} THEN Len(s) + 1 ELSE MinOf(stops)

\* /\[[^\]]+\]\s*/ matches at i
BracketAt(s, i) ==
    /\ s[i] = "["
    /\ i + 1 <= Len(s) /\ s[i + 1] # "]"
    /\ \E j \in (i + 2)..Len(s) : s[j] = "]"

\* .replace(/\[[^\]]+\]\s*/g, "")
RECURSIVE StripBrackets(_)
StripBrackets(s) ==
    LET starts == {i \in 1..Len(s) : BracketAt(s, i)} IN
    IF starts = {} THEN s
    ELSE LET i == MinOf(starts)
             j == MinOf({k \in (i + 2)..Len(s) : s[k] = "]"})
             e == RunEnd(s, j + 1, SpaceChars)
         IN SubSeq(s, 1, i - 1) \o StripBrackets(SubSeq(s, e, Len(s)))

\* ^ under flag m
LineStart(s, i) == i = 1 \/ IsLineTerminator(s[i - 1])

\* /^[ \t]*[A-Za-z0-9+()\-_. ]+:/m matches at i: the blanks, then the
\* longest run of the class, then a colon; the class may take over a space
\* of the blanks when its own run is empty
SpeakerColon(s, i) == RunEnd(s, RunEnd(s, i, BlankChars), SpeakerChars)

SpeakerAt(s, i) ==
    LET q == RunEnd(s, i, BlankChars)
        r == SpeakerColon(s, i)
    IN /\ LineStart(s, i)
       /\ r <= Len(s) /\ s[r] = ":"
       /\ r > q \/ (q > i /\ s[q - 1] = " ")

\* .replace(/^[ \t]*[A-Za-z0-9+()\-_. ]+:\s*/gm, "") from index p on
RECURSIVE StripSpeakersFrom(_, _)
StripSpeakersFrom(s, p) ==
    LET starts == {i \in p..Len(s) : SpeakerAt(s, i)} IN
    IF starts = {} THEN SubSeq(s, p, Len(s))
    ELSE LET i == MinOf(starts)
             e == RunEnd(s, SpeakerColon(s, i) + 1, SpaceChars)
         IN SubSeq(s, p, i - 1) \o StripSpeakersFrom(s, e)

\* .replace(/\\n/g, " "): a backslash followed by the letter n
RECURSIVE ReplaceEscapedNewlines(_)
ReplaceEscapedNewlines(s) ==
    LET starts == {i \in 1..(Len(s) - 1) : s[i] = "\\" /\ s[i + 1] = "n"} IN
    IF starts = {} THEN s
    ELSE LET i == MinOf(starts)
         IN SubSeq(s, 1, i - 1) \o <<" ">> \o
            ReplaceEscapedNewlines(SubSeq(s, i + 2, Len(s)))

\* .replace(/\s+/g, " ")
RECURSIVE CollapseSpaces(_)
CollapseSpaces(s) ==
    LET starts == {i \in 1..Len(s) : IsSpace(s[i])} IN
    IF starts = {} THEN s
    ELSE LET i == MinOf(starts)
             e == RunEnd(s, i, SpaceChars)
         IN SubSeq(s, 1, i - 1) \o <<" ">> \o CollapseSpaces(SubSeq(s, e, Len(s)))

\* String.prototype.trim
Trim(s) ==
    LET kept == {i \in 1..Len(s) : ~IsSpace(s[i])} IN
    IF kept = {} THEN << >>
    ELSE SubSeq(s, MinOf(kept), CHOOSE m \in kept : \A k \in kept : k <= m)

stripStructuralPrefixes(text) ==
    Trim(CollapseSpaces(ReplaceEscapedNewlines(
        StripSpeakersFrom(StripBrackets(text), 1))))

commands ==
    {<<"s","t","a","t","u","s">>, <<"h","e","l","p">>, <<"m","o","d","e","l">>,
     <<"n","e","w">>, <<"r","e","s","e","t">>, <<"s","t","o","p">>,
     <<"c","o","m","m","a","n","d","s">>}

matchCommandMutAnyWord(bodyForCommands) ==
    LET stripped == stripStructuralPrefixes(bodyForCommands)
        e == RunEnd(stripped, 2, WordChars)
        cmd == [k \in 1..(e - 2) |-> ToLower(stripped[k + 1])]
    IN IF Len(stripped) = 0 \/ stripped[1] # "/" THEN Undefined
       ELSE IF e = 2 THEN Undefined
       ELSE Str(cmd)

\* the command name, or Undefined for null
matchCommand(bodyForCommands) ==
    LET stripped == stripStructuralPrefixes(bodyForCommands)
        e == RunEnd(stripped, 2, WordChars)
        cmd == [k \in 1..(e - 2) |-> ToLower(stripped[k + 1])]
    IN IF Len(stripped) = 0 \/ stripped[1] # "/" THEN Undefined
       ELSE IF e = 2 THEN Undefined
       ELSE IF cmd \in commands THEN Str(cmd) ELSE Undefined

\* `${speaker}: ${userContent}`
messageBody(speaker, userContent) == speaker \o <<":", " ">> \o userContent

\* the context of the plugin: Body wrapped, RawBody and CommandBody raw
PluginContext(speaker, userContent) ==
    [Body |-> Str(messageBody(speaker, userContent)),
     RawBody |-> Str(userContent),
     CommandBody |-> Str(userContent),
     BodyForCommands |-> Undefined]

Speakers == {<<"pei","zong">>, <<"J","o","h","n">>}

SlashStatus == <<"/","s","t","a","t","u","s">>

UserContents ==
    {SlashStatus, <<"ni","hao">>,
     <<"/","m","o","d","e","l"," ","s","o","n","n","e","t">>,
     << >>, <<" "," "," ">>, <<"/">>, <<"/","u","n","k","n","o","w","n">>,
     <<"/","S","T","A","T","U","S">>,
     <<"[","F","e","i","s","h","u","]"," ","/","h","e","l","p">>,
     <<"a",":"," ","b",":"," ","/","n","e","w">>,
     <<"/","s","t","o","p","\\","n","n","o","w">>}

\* contexts whose fields other than Body may be absent or empty
PartialContexts ==
    [Body : {Str(messageBody(<<"pei","zong">>, SlashStatus)), Str(<< >>)},
     RawBody : {Undefined, Str(<< >>), Str(<<"/","s","t","o","p">>)},
     CommandBody : {Undefined, Str(<< >>), Str(<<"/","n","e","w">>)},
     BodyForCommands : {Undefined, Str(<< >>), Str(<<"/","h","e","l","p">>)}]

Contexts ==
    {PluginContext(speaker, c) : speaker \in Speakers, c \in UserContents}
        \cup PartialContexts

\* a message arrives and its context is built
ReceiveMessage(contexts) ==
    /\ last.op \in {"none", "matchCommand"}
    /\ \E ctx \in contexts :
        last' = [NoCall EXCEPT !.op = "receiveMessage",
                               !.result = Num([ctx |-> ctx])]
    /\ UNCHANGED <<now, configFile, stateFile, defaultState, writable, hist, calls,
                   tmpFiles, inflight, menu>>

FinalizeInboundContext ==
    /\ last.op = "receiveMessage"
    /\ last' = [NoCall EXCEPT
                  !.op = "finalizeInboundContext",
                  !.result = Num([ctx |-> Val(last.result).ctx,
                                  normalized |-> simulateFinalizeInboundContext(
                                                     Val(last.result).ctx)])]
    /\ UNCHANGED <<now, configFile, stateFile, defaultState, writable, hist, calls,
                   tmpFiles, inflight, menu>>

MatchCommand ==
    /\ last.op = "finalizeInboundContext"
    /\ last' = [NoCall EXCEPT
                  !.op = "matchCommand",
                  !.result = Num([ctx |-> Val(last.result).ctx,
                                  normalized |-> Val(last.result).normalized,
                                  cmd |-> matchCommand(
                                      Val(Val(last.result).normalized.BodyForCommands))])]
    /\ UNCHANGED <<now, configFile, stateFile, defaultState, writable, hist, calls,
                   tmpFiles, inflight, menu>>

InitCommands ==
    /\ now = T0
    /\ configFile = AbsentFile
    /\ stateFile = AbsentFile
    /\ defaultState = DEFAULT_STATE
    /\ writable = TRUE
    /\ last = NoCall
    /\ hist = << >>
    /\ calls = 0
    /\ tmpFiles = {}
    /\ inflight = NoneInFlight
    /\ menu = InitialMenu

NextCommands ==
    \/ ReceiveMessage(Contexts)
    \/ FinalizeInboundContext
    \/ MatchCommand

SpecCommands == InitCommands /\ [][NextCommands]_vars

Finalized == last.op \in {"finalizeInboundContext", "matchCommand"}

\* the content starts with a slash and the command name, and the name ends
\* there
IsCommand(content, name) ==
    /\ OccursAtNoCase(content, <<"/">> \o name, 1)
    /\ Len(content) > Len(name) + 1 => ~IsWordChar(content[Len(name) + 2])

\* C20: finalizing sets BodyForCommands to the first defined value among
\* BodyForCommands, CommandBody, RawBody, Body, the empty string counting as
\* defined, and changes nothing else; so a context whose CommandBody is the
\* raw content has its slash command recognised from the raw content.
BodyForCommandsIsFirstDefined ==
    Finalized =>
        LET ctx == Val(last.result).ctx
            normalized == Val(last.result).normalized
        IN /\ normalized.BodyForCommands =
                 IF ctx.BodyForCommands # Undefined THEN ctx.BodyForCommands
                 ELSE IF ctx.CommandBody # Undefined THEN ctx.CommandBody
                 ELSE IF ctx.RawBody # Undefined THEN ctx.RawBody
                 ELSE ctx.Body
           /\ normalized.Body = ctx.Body
           /\ normalized.RawBody = ctx.RawBody
           /\ normalized.CommandBody = ctx.CommandBody
           /\ last.op = "matchCommand" /\ ctx.BodyForCommands = Undefined
                  /\ ctx.CommandBody # Undefined =>
                 \A name \in commands :
                     IsCommand(Val(ctx.CommandBody), name) =>
                         Val(last.result).cmd = Str(name)

\* /status from a speaker whose prefix the stripping leaves in place: Body
\* alone names no command, the finalized context names status
StatusRecognisedBehindSpeaker ==
    /\ last.op = "matchCommand"
    /\ Val(last.result).ctx = PluginContext(<<"pei","zong">>, SlashStatus)
    /\ stripStructuralPrefixes(Val(Val(last.result).ctx.Body)) =
           Val(Val(last.result).ctx.Body)
    /\ matchCommand(Val(Val(last.result).ctx.Body)) = Undefined
    /\ Val(last.result).cmd = Str(<<"s","t","a","t","u","s">>)

\* ------------------------------------------------------- matching a command

\* matchCommand has just returned for the finalized context
Matched == last.op = "matchCommand"

\* the text the command was matched in
MatchedText == Val(Val(last.result).normalized.BodyForCommands)

\* texts that hold no command: a plain message, nothing, blanks, a bare
\* slash, an unknown command
NotCommands ==
    {<<"ni","hao">>, << >>, <<" "," "," ">>, <<"/">>,
     <<"/","u","n","k","n","o","w","n">>}

\* C21: matchCommand returns a name only when the text, once its structural
\* prefixes are stripped, starts with a slash and a word of the command list,
\* whatever follows the word; it returns null for a plain message, an empty
\* or blank one, a bare slash and an unknown command.
CommandIsKnownWordAfterSlash ==
    Matched =>
        LET stripped == stripStructuralPrefixes(MatchedText)
            cmd == Val(last.result).cmd
        IN /\ cmd # Undefined <=> \E name \in commands : IsCommand(stripped, name)
           /\ \A name \in commands : IsCommand(stripped, name) => cmd = Str(name)
           /\ MatchedText \in NotCommands => cmd = Undefined

\* /model sonnet gives model: the argument is ignored
ArgumentAfterNameIgnored ==
    /\ Matched
    /\ MatchedText = <<"/","m","o","d","e","l"," ","s","o","n","n","e","t">>
    /\ Val(last.result).cmd = Str(<<"m","o","d","e","l">>)

\* ------------------------------------------------------ the learned pattern

\* when an earlier correction was made: a week before T0 (Friday 08:00), three
\* hours after that (11:00), the day after that (Saturday 08:00)
LearnedTimes == {T0 - 7 * MsPerDay, T0 - 7 * MsPerDay + 3 * MsPerHour, T0 - 6 * MsPerDay}

LearnedEntries == {CorrectionAt(t, target) : t \in LearnedTimes, target \in Modalities}

\* the histories earlier runs left: every list of up to three entries, and
\* four at the same time of the week with the voice ones first
LearnedHistories ==
    UNION {[1..n -> LearnedEntries] : n \in 0..3}
        \cup {PriorCorrections(<<"voice", "voice", "text", "text">>, T0 - 7 * MsPerDay)}

LearnedStateFiles ==
    {[kind |-> "json", doc |-> [DEFAULT_STATE EXCEPT !.corrections = h]] :
        h \in LearnedHistories}

AskLearned ==
    /\ last' = [NoCall EXCEPT !.op = "getLearnedPreference",
                              !.mode = getLearnedPreference(Store, now)]
    /\ UNCHANGED <<now, configFile, stateFile, defaultState, writable, hist, calls,
                   tmpFiles, inflight, menu>>

InitLearned ==
    /\ now = T0
    /\ configFile = AbsentFile
    /\ stateFile \in LearnedStateFiles
    /\ defaultState = DEFAULT_STATE
    /\ writable = TRUE
    /\ last = NoCall
    /\ hist = loadState([file |-> stateFile, mem |-> DEFAULT_STATE]).corrections
    /\ calls = 0
    /\ tmpFiles = {}
    /\ inflight = NoneInFlight
    /\ menu = InitialMenu

NextLearned ==
    \/ Tick(Instants)
    \/ calls < MaxCalls /\ RecordCorrection(Modalities)
    \/ AskLearned

SpecLearned == InitLearned /\ [][NextLearned]_vars

AskedLearned == last.op = "getLearnedPreference"

\* the positions of the history made on today's day of the week within two
\* hours of the current hour
MatchingNow ==
    {i \in DOMAIN Loaded.corrections :
        /\ Loaded.corrections[i].dayOfWeek = getDay(now)
        /\ Loaded.corrections[i].hour - getHours(now) \in -2..2}

\* the three latest of them, or all when fewer
RecentMatching == {i \in MatchingNow : Cardinality({j \in MatchingNow : j > i}) < 3}

VoiceAmongRecent ==
    Cardinality({i \in RecentMatching : Loaded.corrections[i].correctedTo = "voice"})

\* C22: the learned signal fires only with at least 3 corrections in the
\* history of which at least 2 share the current day of the week and lie
\* within 2 hours of the current hour; over the 3 most recent of those it is
\* voice when at least 2 are voice, text when none is, and nothing when
\* exactly one is.
LearnedFollowsRecentMatches ==
    AskedLearned =>
        last.mode =
            IF Len(Loaded.corrections) < 3 \/ Cardinality(MatchingNow) < 2 THEN "null"
            ELSE IF VoiceAmongRecent >= 2 THEN "voice"
            ELSE IF VoiceAmongRecent = 0 THEN "text"
            ELSE "null"

\* four corrections match, the two voice ones first: of the latest three
\* exactly one is voice and the signal stays silent
OneVoiceOfThreeIsSilent ==
    /\ AskedLearned
    /\ Cardinality(MatchingNow) = 4
    /\ VoiceAmongRecent = 1
    /\ last.mode = "null"

\* --------------------------------------------------- resolving the schedule

\* schedules of a configuration file: ranges as <<start hour, start minute,
\* end hour, end minute>> with their modes, in the order of the file.
\* A long range before a short one inside it, the same two the other way
\* round, no range, an overnight range overlapped by a morning one, a single
\* afternoon hour.
ResolveSchedules ==
    {[weekday |-> << <<(<<8, 0, 12, 0>>), "text">>, <<(<<9, 0, 10, 0>>), "voice">> >>,
      weekend |-> "text"],
     [weekday |-> << <<(<<9, 0, 10, 0>>), "voice">>, <<(<<8, 0, 12, 0>>), "text">> >>,
      weekend |-> "text"],
     [weekday |-> << >>, weekend |-> "text"],
     [weekday |-> << <<(<<19, 0, 7, 0>>), "text">>, <<(<<6, 0, 9, 0>>), "voice">> >>,
      weekend |-> "voice"],
     [weekday |-> << <<(<<13, 0, 14, 0>>), "text">> >>, weekend |-> "text"]}

ResolveFile(sched) ==
    [kind |-> "json",
     doc |-> [config |-> [rules |-> [schedule |->
                [weekday |-> [i \in DOMAIN sched.weekday |->
                                <<RangeKey(sched.weekday[i][1]), sched.weekday[i][2]>>],
                 weekend |-> sched.weekend]]]]]

InitResolve ==
    /\ now = T0 - 8 * MsPerHour
    /\ configFile \in {ResolveFile(sched) : sched \in ResolveSchedules}
    /\ stateFile = AbsentFile
    /\ defaultState = DEFAULT_STATE
    /\ writable = TRUE
    /\ last = NoCall
    /\ hist = << >>
    /\ calls = 0
    /\ tmpFiles = {}
    /\ inflight = NoneInFlight
    /\ menu = InitialMenu

SpecResolve == InitResolve /\ [][NextSchedule]_vars

\* the range r covers the minute t of the day
Covers(r, t) ==
    LET start == r[1] * 60 + r[2]
        end == r[3] * 60 + r[4]
    IN IF start <= end THEN start <= t /\ t < end ELSE t >= start \/ t < end

\* C23: on a weekend day the schedule preference is the configured weekend
\* preference whatever the weekday ranges; on a weekday it is the mode of the
\* first range, in the order of the file, that covers the time, and voice
\* when the schedule is empty or no range covers the time.
ScheduleResolvesInDeclarationOrder ==
    \A sched \in ResolveSchedules :
        (AskedSchedule /\ configFile = ResolveFile(sched)) =>
            LET covering == {i \in DOMAIN sched.weekday :
                                Covers(sched.weekday[i][1], MinuteOfDay)}
            IN last.mode =
                  IF ~IsWeekday THEN sched.weekend
                  ELSE IF covering = {} THEN "voice"
                  ELSE sched.weekday[MinOf(covering)][2]

\* Friday 09:30 lies in 08:00-12:00 (text) and in the shorter 09:00-10:00
\* (voice) declared after it: the answer is text
LongerRangeDeclaredFirstWins ==
    /\ AskedSchedule
    /\ IsWeekday
    /\ MinuteOfDay = 9 * 60 + 30
    /\ configFile = ResolveFile(
          [weekday |-> << <<(<<8, 0, 12, 0>>), "text">>, <<(<<9, 0, 10, 0>>), "voice">> >>,
           weekend |-> "text"])
    /\ last.mode = "text"

\* ------------------------------------------------- the duration of the audio

\* the duration a call that did not fail handed on: durationMs of the value
\* generateTTS resolved to, the duration sendVoiceMessage uploaded with
HandedDuration ==
    IF last.op = "generateTTS" THEN Val(last.result).durationMs
    ELSE Val(last.result).duration

\* C24: an output of the prober that is no number is a synthesis failure:
\* generateTTS never resolves to an artifact whose durationMs is NaN, and
\* sendVoiceMessage never uploads with such a duration.
UnparsedDurationIsFailure ==
    (last.op \in {"generateTTS", "sendVoiceMessage"} /\ ~last.threw) =>
        ~IsNull(HandedDuration)

\* ---------------------------------------------------- a failed synthesis

\* sendVoiceMessage has just returned or thrown; last.ran lists how the
\* steps that ran ended: engine, transcoder, prober, upload, send
Sent == last.op = "sendVoiceMessage"

\* C25: within one sendVoiceMessage the engine runs once; when the engine,
\* the transcoder or the prober fails the call throws and neither upload nor
\* send runs; upload runs only after the three succeeded, send only after the
\* upload succeeded, and the call throws iff a step failed.
FailedSynthesisIsSurfaced ==
    Sent =>
        /\ Len(last.ran) \in 1..5
        /\ \A i \in 1..(Len(last.ran) - 1) : last.ran[i] = "ok"
        /\ last.threw <=> last.ran[Len(last.ran)] # "ok"
        /\ ~last.threw => Len(last.ran) = 5

\* the prober failed after the engine and the transcoder succeeded: the call
\* threw without an upload
ProberFailureStopsBeforeUpload ==
    /\ Sent
    /\ last.ran = <<"ok", "ok", "fail">>
    /\ last.threw

\* ------------------------------------------------ the time of an interaction

\* C26: a decision and a recorded interaction both count as an interaction:
\* when shouldSendAsVoice or updateInteraction has returned, the persisted
\* lastInteractionAt is the time of that call.
InteractionTimeIsLatestCall ==
    last.op \in {"shouldSendAsVoice", "updateInteraction"} =>
        Persisted.lastInteractionAt = Num(now)

\* ----------------------------------------- callers that share the state file

\* a caller that never reads the file
SnapshotMutNeverReads(file) == DEFAULT_STATE

\* what loadState() returns to a caller, a process with its own DEFAULT_STATE,
\* when the file at STATE_PATH is `file`
Snapshot(file) == loadState([file |-> file, mem |-> DEFAULT_STATE])

\* the state-mutating calls a caller makes
StateCalls ==
    [op : {"recordCorrection"}, arg : Modalities]
        \cup [op : {"setTemporaryMode"}, arg : {"voice", "text"}]
        \cup [op : {"updateInteraction"}, arg : {"voice"}]

\* the file a call leaves when the state it loaded was `state` and the rest
\* of it (assignments, saveState) runs at the instant t
SavedBy(call, state, t, canWrite) ==
    LET store == [file |-> [kind |-> "json", doc |-> state], mem |-> DEFAULT_STATE]
    IN IF call.op = "recordCorrection"
       THEN recordCorrection(store, call.arg, t, canWrite).file
       ELSE IF call.op = "setTemporaryMode"
       THEN setTemporaryMode(store, call.arg, Null, t, canWrite).file
       ELSE updateInteraction(store, call.arg, t, canWrite).file

\* the caller has been in the middle of a call while another one was
Overlapped(c) == inflight[c].pc # "idle" /\ inflight[c].overlapped

\* the caller enters a call: loadState() returns
BeginCall(c) ==
    /\ inflight[c].pc \in {"idle", "done"}
    /\ \E call \in StateCalls :
        LET others == \E d \in Callers \ {c} : inflight[d].pc = "loaded"
        IN inflight' =
              [d \in Callers |->
                  IF d = c
                  THEN [pc |-> "loaded", call |-> call, state |-> Snapshot(stateFile),
                        overlapped |-> others \/ Overlapped(c)]
                  ELSE IF inflight[d].pc = "loaded"
                  THEN [inflight[d] EXCEPT !.overlapped = TRUE]
                  ELSE inflight[d]]
    /\ calls' = calls + 1
    /\ UNCHANGED <<now, configFile, stateFile, defaultState, writable, last, hist,
                   tmpFiles, menu>>

\* the caller finishes its call: the assignments and saveState(state).
\* last.result is the state an uninterrupted call would have left.
FinishCall(c) ==
    /\ inflight[c].pc = "loaded"
    /\ stateFile' = SavedBy(inflight[c].call, inflight[c].state, now, writable)
    /\ inflight' = [inflight EXCEPT ![c] = [@ EXCEPT !.pc = "done"]]
    /\ hist' = IF inflight[c].call.op = "recordCorrection"
               THEN Append(hist, CorrectionAt(now, inflight[c].call.arg))
               ELSE hist
    /\ last' = [NoCall EXCEPT
                  !.op = inflight[c].call.op,
                  !.mode = inflight[c].call.arg,
                  !.result = Num(Snapshot(SavedBy(inflight[c].call,
                                                  Snapshot(stateFile), now, writable)))]
    /\ UNCHANGED <<now, configFile, defaultState, writable, calls, tmpFiles, menu>>

NextRace ==
    \/ Tick(Instants)
    \/ \E c \in Callers : calls < MaxCalls /\ BeginCall(c)
    \/ \E c \in Callers : FinishCall(c)

SpecRace == Init /\ [][NextRace]_vars

\* no call so far ran while another caller was in the middle of one
Serialized == \A c \in Callers : ~Overlapped(c)

\* a call has finished
Finished == last.op \in {"recordCorrection", "setTemporaryMode", "updateInteraction"}

\* C27: when every call's load-to-save ran without another caller in between,
\* no update is lost: the file holds what the last call, run on the state
\* then stored, leaves, and every correction recorded; calls that interleave
\* can lose one.
SerializedCallsLoseNoUpdate ==
    (Serialized /\ Finished) =>
        /\ Persisted = Val(last.result)
        /\ \A c \in Callers : inflight[c].pc # "loaded" => Persisted.corrections = hist

\* two recordCorrection calls interleaved and both finished: the file lacks
\* one of the two corrections
InterleavedCorrectionLost ==
    /\ \A c \in Callers :
          /\ inflight[c].pc = "done"
          /\ inflight[c].call.op = "recordCorrection"
          /\ inflight[c].overlapped
    /\ Len(Persisted.corrections) = Len(hist) - 1

\* ------------------------------------------- requests that share os.tmpdir()

\* the caller is between the start of generateTTS and the release of its
\* opus file
InSynthesis(c) == inflight[c].pc \in {"started", "engine", "transcoded", "synthesized"}

\* const timestamp = Date.now(); wavPath and opusPath are made from it
StartSynthesis(c) ==
    /\ inflight[c].pc \in {"idle", "released", "threw"}
    /\ inflight' = [inflight EXCEPT ![c] = [pc |-> "started", timestamp |-> now]]
    /\ calls' = calls + 1
    /\ UNCHANGED <<now, configFile, stateFile, defaultState, writable, last, hist,
                   tmpFiles, menu>>

\* execSync(ttsCmd): the engine writes the wav file, over one that is there
RunEngine(c) ==
    /\ inflight[c].pc = "started"
    /\ tmpFiles' = tmpFiles \cup {WavPath(inflight[c].timestamp)}
    /\ inflight' = [inflight EXCEPT ![c] = [@ EXCEPT !.pc = "engine"]]
    /\ UNCHANGED <<now, configFile, stateFile, defaultState, writable, last, hist,
                   calls, menu>>

\* execSync(ffmpeg -y -i wavPath ... opusPath): fails without its input
RunTranscoder(c) ==
    /\ inflight[c].pc = "engine"
    /\ IF WavPath(inflight[c].timestamp) \in tmpFiles
       THEN /\ tmpFiles' = tmpFiles \cup {OpusPath(inflight[c].timestamp)}
            /\ inflight' = [inflight EXCEPT ![c] = [@ EXCEPT !.pc = "transcoded"]]
       ELSE /\ tmpFiles' = tmpFiles
            /\ inflight' = [inflight EXCEPT ![c] = [@ EXCEPT !.pc = "threw"]]
    /\ UNCHANGED <<now, configFile, stateFile, defaultState, writable, last, hist,
                   calls, menu>>

\* execSync(ffprobe ... opusPath), then fs.unlinkSync(wavPath): either throws
\* when its file is gone
ProbeAndUnlink(c) ==
    /\ inflight[c].pc = "transcoded"
    /\ IF /\ OpusPath(inflight[c].timestamp) \in tmpFiles
          /\ WavPath(inflight[c].timestamp) \in tmpFiles
       THEN /\ tmpFiles' = tmpFiles \ {WavPath(inflight[c].timestamp)}
            /\ inflight' = [inflight EXCEPT ![c] = [@ EXCEPT !.pc = "synthesized"]]
       ELSE /\ tmpFiles' = tmpFiles
            /\ inflight' = [inflight EXCEPT ![c] = [@ EXCEPT !.pc = "threw"]]
    /\ UNCHANGED <<now, configFile, stateFile, defaultState, writable, last, hist,
                   calls, menu>>

\* the finally block of sendVoiceMessage after the upload and the send:
\* if (fs.existsSync(opusPath)) fs.unlinkSync(opusPath)
ReleaseOpus(c) ==
    /\ inflight[c].pc = "synthesized"
    /\ tmpFiles' = tmpFiles \ {OpusPath(inflight[c].timestamp)}
    /\ inflight' = [inflight EXCEPT ![c] = [@ EXCEPT !.pc = "released"]]
    /\ UNCHANGED <<now, configFile, stateFile, defaultState, writable, last, hist,
                   calls, menu>>

NextSynthesis ==
    \/ Tick(Instants)
    \/ \E c \in Callers : calls < MaxCalls /\ StartSynthesis(c)
    \/ \E c \in Callers : RunEngine(c)
    \/ \E c \in Callers : RunTranscoder(c)
    \/ \E c \in Callers : ProbeAndUnlink(c)
    \/ \E c \in Callers : ReleaseOpus(c)

SpecSynthesis == InitTTS /\ [][NextSynthesis]_vars

\* C28: two requests in synthesis at the same time use distinct wav paths
\* and distinct opus paths, and no request finds a file of its own removed
\* by another, also when both started in the same millisecond.
RequestsUseDistinctPaths ==
    /\ \A c, d \in Callers :
          (c # d /\ InSynthesis(c) /\ InSynthesis(d)) =>
              /\ WavPath(inflight[c].timestamp) # WavPath(inflight[d].timestamp)
              /\ OpusPath(inflight[c].timestamp) # OpusPath(inflight[d].timestamp)
    /\ \A c \in Callers : inflight[c].pc # "threw"

\* ------------------------------------------------------------- menu events

EVENT_ID_TTL_MS == 60 * MsPerSecond

\* a markEventProcessed that never remembers the id
markEventProcessedMutForgets(m, eventId, t) == [ret |-> TRUE, menu |-> m]

\* a markEventProcessed that sets no timer
markEventProcessedMutNoTimer(m, eventId, t) ==
    IF eventId \in m.processedEventIds THEN [ret |-> FALSE, menu |-> m]
    ELSE [ret |-> TRUE, menu |-> [m EXCEPT !.processedEventIds = @ \cup {eventId}]]

\* markEventProcessed(eventId) at the instant t: whether the id is new, and
\* the module after the call (the id added, a timer set to delete it)
markEventProcessed(m, eventId, t) ==
    IF eventId \in m.processedEventIds THEN [ret |-> FALSE, menu |-> m]
    ELSE [ret |-> TRUE,
          menu |-> [m EXCEPT
                      !.processedEventIds = @ \cup {eventId},
                      !.timers = @ \cup {[id |-> eventId, due |-> t + EVENT_ID_TTL_MS]}]]

\* the keys of the builtinHandlers object literal
BuiltinKeys == {"status", "help", "usage", "model", "clear"}

\* properties the object literal inherits from Object.prototype
InheritedKeys == {"constructor", "toString", "valueOf", "hasOwnProperty"}

\* builtinHandlers[eventKey] is truthy
builtinHandlers(eventKey) == eventKey \in BuiltinKeys \cup InheritedKeys

\* registerMenuHandler(eventKey, handler)
registerMenuHandler(m, eventKey) == [m EXCEPT !.customHandlers = @ \cup {eventKey}]

\* unregisterMenuHandler(eventKey)
unregisterMenuHandler(m, eventKey) == [m EXCEPT !.customHandlers = @ \ {eventKey}]

\* event.event_id || event.uuid || `${eventKey}:${operatorOpenId}:${event.timestamp}`
\* (an id is the tuple of its parts: one for event_id and uuid, three for the
\* composite)
EventIdOf(event) ==
    IF IsGiven(event.event_id) THEN <<event.event_id>>
    ELSE IF IsGiven(event.uuid) THEN <<event.uuid>>
    ELSE <<event.event_key, event.open_id, event.timestamp>>

\* handleFeishuMenuEvent up to its first await, at the instant t; agent: how
\* the calls of the fallback end ("ok", or "fail" when getFeishuRuntime,
\* resolveAgentRoute or enqueueSystemEvent throws).  Gives the route taken:
\* "ignored" (no key or no operator), "skipped" (a duplicate), "custom",
\* "builtin", "agent" (system event enqueued), "agentFailed" (the fallback
\* threw before the event was enqueued).
handleFeishuMenuEvent(m, event, t, agent) ==
    LET marked == markEventProcessed(m, EventIdOf(event), t)
        took(route, after) ==
            [route |-> route,
             menu |-> [after EXCEPT !.routed =
                          Append(@, [eventId |-> EventIdOf(event),
                                     key |-> event.event_key,
                                     operator |-> event.open_id,
                                     at |-> t, route |-> route])]]
    IN IF ~IsGiven(event.event_key) THEN took("ignored", m)
       ELSE IF ~IsGiven(event.open_id) THEN took("ignored", m)
       ELSE IF ~marked.ret THEN took("skipped", marked.menu)
       ELSE IF event.event_key \in m.customHandlers THEN took("custom", marked.menu)
       ELSE IF builtinHandlers(event.event_key) THEN took("builtin", marked.menu)
       ELSE IF agent = "ok" THEN took("agent", marked.menu)
       ELSE took("agentFailed", marked.menu)

\* a key with a built-in handler, a key with none, a key that names a property
\* every object inherits
MenuKeys == {"status", "weather", "constructor"}

\* events that carry an event_id, one that carries only a uuid, and events
\* with neither, among them those that miss the key or the operator
MenuEvents ==
    [event_id : {"e1"}, uuid : {"undefined"}, event_key : MenuKeys,
     open_id : {"ou_1"}, timestamp : {1}]
    \cup [event_id : {"undefined"}, uuid : {"u1"}, event_key : {"weather"},
          open_id : {"ou_1"}, timestamp : {1}]
    \cup [event_id : {"undefined"}, uuid : {"undefined"}, event_key : {"status"},
          open_id : {"ou_1", "undefined"}, timestamp : {1}]
    \cup [event_id : {"e1"}, uuid : {"undefined"}, event_key : {"undefined"},
          open_id : {"ou_1"}, timestamp : {1}]

\* T0, the last millisecond an id is kept, the millisecond its timer is due
MenuInstants == {T0, T0 + EVENT_ID_TTL_MS - 1, T0 + EVENT_ID_TTL_MS}

\* time passes; the timers that are due run and delete their ids
MenuTick(instants) ==
    /\ \E t \in instants :
        /\ t > now
        /\ now' = t
        /\ menu' = [menu EXCEPT
                      !.processedEventIds =
                          @ \ {tm.id : tm \in {x \in menu.timers : x.due <= t}},
                      !.timers = {x \in menu.timers : x.due > t}]
    /\ UNCHANGED <<configFile, stateFile, defaultState, writable, last, hist, calls,
                   tmpFiles, inflight>>

\* an event is delivered to the caller c; when a handler is awaited the
\* caller stays in it
DeliverMenuEvent(c, events) ==
    /\ inflight[c].pc = "idle"
    /\ \E event \in events, agent \in {"ok", "fail"} :
        \E r \in {handleFeishuMenuEvent(menu, event, now, agent)} :
        /\ menu' = r.menu
        /\ inflight' = [inflight EXCEPT ![c] =
                          IF r.route \in {"custom", "builtin"}
                          THEN [pc |-> "handling", eventId |-> EventIdOf(event)]
                          ELSE Idle]
    /\ calls' = calls + 1
    /\ UNCHANGED <<now, configFile, stateFile, defaultState, writable, last, hist,
                   tmpFiles>>

\* the awaited handler resolves or rejects; a rejection is caught and
\* logged, and either way the call returns and leaves the module as it is
FinishHandler(c) ==
    /\ inflight[c].pc = "handling"
    /\ inflight' = [inflight EXCEPT ![c] = Idle]
    /\ UNCHANGED <<now, configFile, stateFile, defaultState, writable, last, hist,
                   calls, tmpFiles, menu>>

RegisterMenuHandler(keys) ==
    /\ \E eventKey \in keys : menu' = registerMenuHandler(menu, eventKey)
    /\ UNCHANGED <<now, configFile, stateFile, defaultState, writable, last, hist,
                   calls, tmpFiles, inflight>>

UnregisterMenuHandler(keys) ==
    /\ \E eventKey \in keys : menu' = unregisterMenuHandler(menu, eventKey)
    /\ UNCHANGED <<now, configFile, stateFile, defaultState, writable, last, hist,
                   calls, tmpFiles, inflight>>

NextMenu ==
    \/ MenuTick(MenuInstants)
    \/ \E c \in Callers : calls < MaxCalls /\ DeliverMenuEvent(c, MenuEvents)
    \/ \E c \in Callers : FinishHandler(c)
    \/ RegisterMenuHandler({"status", "weather"})
    \/ UnregisterMenuHandler({"status", "weather"})

SpecMenu == InitTTS /\ [][NextMenu]_vars

\* the deliveries, by position in the log, of the event id of the delivery i
\* that came less than the TTL after the first of them
DeliveriesInWindow(i) ==
    LET same == {j \in DOMAIN menu.routed :
                    /\ menu.routed[j].eventId = menu.routed[i].eventId
                    /\ menu.routed[j].route # "ignored"}
        first == MinOf(same)
    IN {j \in same : menu.routed[j].at < menu.routed[first].at + EVENT_ID_TTL_MS}

\* the delivery was not ignored for a missing key or operator
WellFormed(i) == menu.routed[i].route # "ignored"

\* C29 as stated: among the deliveries of one event id less than 60 seconds
\* after the first, exactly one invokes a handler or enqueues a system event.
ExactlyOneDeliveryHandled ==
    \A i \in DOMAIN menu.routed :
        WellFormed(i) =>
            Cardinality({j \in DeliveriesInWindow(i) :
                            menu.routed[j].route \in {"custom", "builtin", "agent"}}) = 1

\* C29: among the deliveries of one event id less than 60 seconds after the
\* first, exactly one takes a route (the first: the id is marked before the
\* handler is awaited) and every other is skipped; so at most one invokes a
\* handler or enqueues a system event, and none does when the fallback of
\* the first throws before it enqueues.
ExactlyOneDeliveryRouted ==
    \A i \in DOMAIN menu.routed :
        WellFormed(i) =>
            LET window == DeliveriesInWindow(i)
                routed == {j \in window : menu.routed[j].route # "skipped"}
            IN /\ routed = {MinOf(window)}
               /\ Cardinality({j \in window :
                      menu.routed[j].route \in {"custom", "builtin", "agent"}}) <= 1

\* a duplicate delivered while the handler of the first delivery is still
\* running was skipped
DuplicateSkippedWhileHandlerRuns ==
    /\ Len(menu.routed) = 2
    /\ menu.routed[1].eventId = menu.routed[2].eventId
    /\ menu.routed[1].route = "custom"
    /\ menu.routed[2].route = "skipped"
    /\ \E c \in Callers :
          inflight[c].pc = "handling" /\ inflight[c].eventId = menu.routed[1].eventId

\* the one route the stated precedence gives an event, the custom handlers
\* registered being registered: none without a key or an operator, else the
\* custom handler of the key, else the built-in handler of that name, else
\* the agent fallback
StatedRoutes(registered, eventKey, operator) ==
    IF ~IsGiven(eventKey) \/ ~IsGiven(operator) THEN {"ignored"}
    ELSE IF eventKey \in registered THEN {"custom"}
    ELSE IF eventKey \in BuiltinKeys THEN {"builtin"}
    ELSE {"agent", "agentFailed"}

\* C30 as stated: every delivery that is not skipped as a duplicate takes the
\* route of the precedence custom handler, built-in handler of that name,
\* agent fallback, by the handlers registered when it is delivered, and a
\* delivery without event_key or operator open_id takes no route.
DispatchFollowsPrecedence ==
    [][Len(menu'.routed) = Len(menu.routed) + 1 =>
          LET taken == menu'.routed[Len(menu'.routed)]
          IN taken.route # "skipped" =>
                taken.route \in StatedRoutes(menu.customHandlers, taken.key,
                                             taken.operator)]_vars

\* ------------------------------------------------- menu handlers that fail

\* a resumption that lets the error of the handler escape
resumeMenuEventMutRethrows(route, outcome) ==
    [pc |-> "settled", route |-> route, threw |-> outcome = "fail",
     promise |-> IF outcome = "fail" THEN "rejected" ELSE "resolved",
     logged |-> FALSE, invoked |-> <<route>>]

\* handleFeishuMenuEvent from the await of the handler of the route on:
\* outcome is how the handler ends ("ok", or "fail" when it throws or its
\* promise rejects).  Both the try and the catch return, so nothing else is
\* invoked; the catch logs with error(...), which returns.  Gives how the call
\* ends: the promise, whether an error was logged, what was invoked.
resumeMenuEvent(route, outcome) ==
    [pc |-> "settled", route |-> route, threw |-> outcome = "fail",
     promise |-> "resolved", logged |-> outcome = "fail", invoked |-> <<route>>]

\* how a call that awaits nothing ends: ignored and skipped events invoke
\* nothing; the fallback either enqueues the system event or throws inside
\* its try, and its catch logs
endMenuEvent(route) ==
    [pc |-> "settled", route |-> route, threw |-> route = "agentFailed",
     promise |-> "resolved", logged |-> route = "agentFailed",
     invoked |-> IF route \in {"agent", "agentFailed"} THEN <<"agent">> ELSE << >>]

\* an event is delivered to the caller c, which keeps how the call ends
CallMenuHandler(c, events) ==
    /\ inflight[c].pc \in {"idle", "settled"}
    /\ \E event \in events, agent \in {"ok", "fail"} :
        \E r \in {handleFeishuMenuEvent(menu, event, now, agent)} :
        /\ menu' = r.menu
        /\ inflight' = [inflight EXCEPT ![c] =
                          IF r.route \in {"custom", "builtin"}
                          THEN [pc |-> "handling", route |-> r.route]
                          ELSE endMenuEvent(r.route)]
    /\ calls' = calls + 1
    /\ UNCHANGED <<now, configFile, stateFile, defaultState, writable, last, hist,
                   tmpFiles>>

\* the awaited handler resolves or rejects and the call ends
SettleHandler(c) ==
    /\ inflight[c].pc = "handling"
    /\ \E outcome \in {"ok", "fail"} :
        inflight' = [inflight EXCEPT ![c] = resumeMenuEvent(inflight[c].route, outcome)]
    /\ UNCHANGED <<now, configFile, stateFile, defaultState, writable, last, hist,
                   calls, tmpFiles, menu>>

NextContain ==
    \/ \E c \in Callers : calls < MaxCalls /\ CallMenuHandler(c, MenuEvents)
    \/ \E c \in Callers : SettleHandler(c)
    \/ RegisterMenuHandler({"status", "weather"})
    \/ UnregisterMenuHandler({"status", "weather"})

SpecContain == InitTTS /\ [][NextContain]_vars

\* C31: every call of handleFeishuMenuEvent completes normally; a call whose
\* custom or built-in handler threw logged the error and invoked that handler
\* alone (no other handler, no agent fallback), and a call whose agent
\* fallback threw logged the error and invoked nothing else.
FailingHandlerIsContained ==
    \A c \in Callers :
        inflight[c].pc = "settled" =>
            /\ inflight[c].promise = "resolved"
            /\ inflight[c].threw =>
                  /\ inflight[c].logged
                  /\ inflight[c].invoked =
                        <<IF inflight[c].route = "agentFailed" THEN "agent"
                          ELSE inflight[c].route>>

\* the custom handler of one call threw, the built-in handler of another did
HandlersThrew ==
    /\ inflight["a"].pc = "settled" /\ inflight["a"].route = "custom"
    /\ inflight["a"].threw
    /\ inflight["b"].pc = "settled" /\ inflight["b"].route = "builtin"
    /\ inflight["b"].threw

\* ---------------------------------------------- what a decision leaves behind

\* C32: shouldSendAsVoice leaves the state file and the state in memory as
\* they were, except when it resets an override that has expired: then the
\* state read back has currentMode "auto", modeSetAt the current time and no
\* modeExpiresAt, and lastUserInputMode, lastInteractionAt and corrections as
\* before the call.
DecideWritesOnlyTheReset ==
    [][last'.op = "shouldSendAsVoice" =>
        LET before == Loaded
            after == Persisted'
            reset == <<stateFile', defaultState'>> # <<stateFile, defaultState>>
        IN /\ reset => before.currentMode # "auto" /\ HasExpired(before, now)
           /\ (before.currentMode = "auto" \/ ~HasExpired(before, now)) => ~reset
           /\ reset =>
                 /\ after.currentMode = "auto"
                 /\ after.modeSetAt = Num(now)
                 /\ after.modeExpiresAt = Null
                 /\ after.lastUserInputMode = before.lastUserInputMode
                 /\ after.lastInteractionAt = before.lastInteractionAt
                 /\ after.corrections = before.corrections
                 /\ Loaded' = after]_vars

\* a decision has reset an expired override and the corrections recorded
\* before it are still in the state file
ResetKeptCorrections ==
    /\ Decided
    /\ OverrideLapsed
    /\ Persisted.currentMode = "auto"
    /\ Persisted.modeSetAt = Num(now)
    /\ Len(Persisted.corrections) > 0
    /\ Persisted.corrections = last.pre.corrections

\* --------------------------------------------- what an explanation leaves behind

\* an explanation that resets an expired override as the decision does
explainDecisionStoreMutResets(store, file, responseText, userMessage, t, canWrite) ==
    shouldSendAsVoice(store, file, responseText, userMessage, t, canWrite).store

\* the store explainDecision(responseText, userMessage) leaves behind: it
\* assigns no field of the loaded state and calls neither saveState nor
\* setTemporaryMode, in the branch of an expired override too
explainDecisionStore(store, file, responseText, userMessage, t, canWrite) ==
    store

\* explainDecision is called: its result and the store after it
ExplainOnce(texts, messages) ==
    \E responseText \in texts, userMessage \in messages :
        \E e \in {explainDecision(Store, configFile, responseText, userMessage, now)},
           st \in {explainDecisionStore(Store, configFile, responseText, userMessage,
                                        now, writable)} :
        /\ stateFile' = st.file
        /\ defaultState' = st.mem
        /\ last' = [NoCall EXCEPT !.op = "explainDecision", !.text = responseText,
                                  !.msg = userMessage, !.threw = e.threw,
                                  !.pre = Loaded, !.result = Num(e)]
        /\ calls' = calls + 1
        /\ UNCHANGED <<now, configFile, writable, hist, tmpFiles, inflight, menu>>

\* a plain and a fenced response, no user message and one with a keyword
AskTexts == {PlainText, FencedText}
AskMessages == {Null, Num(<<"kai","che">>)}

NextAsk ==
    \/ Tick(Instants)
    \/ calls < MaxCalls /\ SetTemporaryMode(Modes, Durations)
    \/ calls < MaxCalls /\ UpdateInteraction(InputModes)
    \/ calls < MaxCalls /\ ExplainOnce(AskTexts, AskMessages)
    \/ calls < MaxCalls /\ Decide(AskTexts, AskMessages)

SpecAsk == Init /\ [][NextAsk]_vars

\* C33: explainDecision leaves the state file and the state in memory as
\* they were, whatever the input and the state (an expired override
\* included), so the decision that follows it returns the same value and
\* leaves the same state as it would have without the explanation.
ExplainLeavesStateAndDecision ==
    [][last'.op = "explainDecision" =>
        /\ stateFile' = stateFile
        /\ defaultState' = defaultState
        /\ \A responseText \in AskTexts, userMessage \in AskMessages :
              shouldSendAsVoice(Store', configFile', responseText, userMessage,
                                now', writable')
              = shouldSendAsVoice(Store, configFile, responseText, userMessage,
                                  now, writable)]_vars

\* an explanation has reported an expired override and the override is
\* still in the state file
ExplainedExpiredOverrideKept ==
    /\ Explained
    /\ OverrideLapsed
    /\ Val(last.result).rule = "expired"
    /\ Persisted.currentMode = last.pre.currentMode
    /\ Persisted.modeExpiresAt = last.pre.modeExpiresAt

\* ------------------------------------------------------- separate clicks

\* The menu events of separate clicks.  `click` names the click an event
\* reports (the code does not see it; a redelivery reports the same click):
\* two clicks whose events carry their own event_id, and three clicks on the
\* same key by the same operator whose events carry neither event_id nor
\* uuid, two of them with the same timestamp.
ClickEvent(id, timestamp) ==
    [event_id |-> id, uuid |-> "undefined", event_key |-> "status",
     open_id |-> "ou_1", timestamp |-> timestamp]

Clicks ==
    {[click |-> 1, event |-> ClickEvent("e1", 1)],
     [click |-> 2, event |-> ClickEvent("e2", 1)],
     [click |-> 3, event |-> ClickEvent("undefined", 1)],
     [click |-> 4, event |-> ClickEvent("undefined", 1)],
     [click |-> 5, event |-> ClickEvent("undefined", 2)]}

\* the event of a click is delivered to the caller c; the entry of the log
\* is tagged with the click
DeliverClick(c, clicks) ==
    /\ inflight[c].pc = "idle"
    /\ \E k \in clicks, agent \in {"ok", "fail"} :
        \E r \in {handleFeishuMenuEvent(menu, k.event, now, agent)} :
        /\ menu' = [r.menu EXCEPT !.routed =
                       Append(menu.routed,
                              r.menu.routed[Len(r.menu.routed)] @@ [click |-> k.click])]
        /\ inflight' = [inflight EXCEPT ![c] =
                          IF r.route \in {"custom", "builtin"}
                          THEN [pc |-> "handling", eventId |-> EventIdOf(k.event)]
                          ELSE Idle]
    /\ calls' = calls + 1
    /\ UNCHANGED <<now, configFile, stateFile, defaultState, writable, last, hist,
                   tmpFiles>>

NextClicks ==
    \/ MenuTick(MenuInstants)
    \/ \E c \in Callers : calls < MaxCalls /\ DeliverClick(c, Clicks)
    \/ \E c \in Callers : FinishHandler(c)

SpecClicks == InitTTS /\ [][NextClicks]_vars

\* C34 as stated: a delivery is skipped only when it is a redelivery, that is
\* when an event of the same click was delivered before it; the events of two
\* separate clicks are both handled, also when they carry neither event_id
\* nor uuid.
OnlyRedeliveriesSkipped ==
    \A j \in DOMAIN menu.routed :
        menu.routed[j].route = "skipped" =>
            \E i \in 1..(j - 1) : menu.routed[i].click = menu.routed[j].click

\* ------------------------------------------------------ expiry of event ids

\* the events that have a key and an operator and name an own key
ExpiryEvents ==
    {e \in MenuEvents :
        IsGiven(e.event_key) /\ IsGiven(e.open_id) /\ e.event_key \notin InheritedKeys}

\* the timer that is due first runs: the clock reaches its due time
TimerFires ==
    /\ menu.timers # {}
    /\ MenuTick({MinOf({x.due : x \in menu.timers})})

NextExpiry ==
    \/ MenuTick(MenuInstants)
    \/ TimerFires
    \/ \E c \in Callers : calls < MaxCalls /\ DeliverMenuEvent(c, ExpiryEvents)
    \/ \E c \in Callers : FinishHandler(c)

\* the event loop runs a timer that is due
SpecExpiry == InitTTS /\ [][NextExpiry]_vars /\ WF_vars(TimerFires)

\* the deliveries, by position in the log, that marked the id as new
MarksOf(id) ==
    {j \in DOMAIN menu.routed :
        menu.routed[j].eventId = id /\ menu.routed[j].route \notin {"ignored", "skipped"}}

\* the processed-id set holds exactly the ids marked less than the TTL ago,
\* each with one timer due the TTL after its mark (no duplicate in between
\* cancelled or moved it), and a delivery was skipped only less than the
\* TTL after a mark of its id
ProcessedIdsAreRecent ==
    /\ \A id \in menu.processedEventIds :
          \E j \in MarksOf(id) :
              /\ now < menu.routed[j].at + EVENT_ID_TTL_MS
              /\ {x \in menu.timers : x.id = id}
                    = {[id |-> id, due |-> menu.routed[j].at + EVENT_ID_TTL_MS]}
    /\ \A j \in DOMAIN menu.routed :
          /\ (/\ menu.routed[j].route \notin {"ignored", "skipped"}
              /\ now < menu.routed[j].at + EVENT_ID_TTL_MS)
                => menu.routed[j].eventId \in menu.processedEventIds
          /\ menu.routed[j].route = "skipped" =>
                \E i \in 1..(j - 1) :
                    /\ i \in MarksOf(menu.routed[j].eventId)
                    /\ menu.routed[j].at < menu.routed[i].at + EVENT_ID_TTL_MS
    /\ {x.id : x \in menu.timers} = menu.processedEventIds

\* C35: every id is removed from the processed-id set 60 seconds after it
\* was added, duplicates in between neither cancelling nor extending its
\* timer, so the set holds exactly the ids first seen in the last 60
\* seconds and a redelivery after the TTL is handled as a new event; and
\* once deliveries stop the set eventually becomes empty and stays empty.
EventIdsExpire ==
    /\ []ProcessedIdsAreRecent
    /\ <>[](menu.processedEventIds = {})

\* an id was handled, skipped inside its TTL, then its timer ran and the set
\* is empty
SkippedThenExpired ==
    /\ Len(menu.routed) = 2
    /\ menu.routed[1].eventId = menu.routed[2].eventId
    /\ menu.routed[1].route = "builtin"
    /\ menu.routed[2].route = "skipped"
    /\ menu.routed[2].at > menu.routed[1].at
    /\ now = menu.routed[1].at + EVENT_ID_TTL_MS
    /\ menu.processedEventIds = {}

====
